---- MODULE Spec2Model ----
(***************************************************************************)
(* A model of the CRSF relay: the frame codec and stream parser of         *)
(* crsf_protocol.py, the table-driven CRC of channel_parser.py, the        *)
(* handlers of bridge_b.py, the UDP transport of udp_transport.py and the  *)
(* half-duplex transceivers of dual_gpio_uart.py and half_duplex_uart.py.  *)
(*                                                                         *)
(* The specifications share the variables:                                 *)
(*   Spec       a byte stream fed in chunks to a CRSFParser, directly or   *)
(*              through SmartBridge._on_uart_data;                         *)
(*   SpecBridge the short streams of Spec through _on_uart_data only;      *)
(*   SpecCrc    the two CRC-8 implementations applied to bounded inputs;   *)
(*   SpecUdp    the UDP receive loop and the heartbeat loop over a         *)
(*              discrete clock;                                            *)
(*   SpecRelay  the same loops with send_crsf_data called from the serial  *)
(*              side;                                                      *)
(*   SpecUart   the serial reader, the threads that call send() and the    *)
(*              main thread running SmartBridge.stop(); FairSpecUart adds  *)
(*              fair scheduling of the threads.                            *)
(*   SpecScan   one call of add_data, one pass of its loop per step;       *)
(*   SpecCodec  frames constructed directly or by create_ping_frame and    *)
(*              create_heartbeat_frame, and encoded by build();            *)
(*   SpecHalfDuplex  the receive loop and send() of HalfDuplexUART;        *)
(*   SpecStats  three threads inside UDPTransport._send_packet, the        *)
(*              counter update split into its load and its store;          *)
(*   SpecEnvelope  one envelope sent and read back through recvfrom;       *)
(*   SpecPeers  two UDPTransport objects exchanging heartbeats;            *)
(*   SpecDispatch  the frame handlers of SmartBridge and the callbacks     *)
(*              registered with set_frame_callback.                        *)
(* Bytes are naturals in 0..255; byte strings are sequences of bytes.      *)
(***************************************************************************)
EXTENDS Integers, Sequences, FiniteSets, TLC

VARIABLES
    \* ---- CRSFParser / SmartBridge (Spec)
    mode,        \* "parser": add_data is called directly; "bridge": through _on_uart_data
    stream,      \* the bytes the serial side will deliver, fixed at Init
    pos,         \* how many bytes of stream have been delivered
    buffer,      \* CRSFParser.buffer
    frames,      \* the list returned by the last add_data call (<<>> when it raised)
    raised,      \* whether the last add_data call raised to its caller
    calls,       \* per add_data call so far: the list it returned
    udpSent,     \* the byte strings handed to udp_transport.send_crsf_data
    telemetry,   \* SmartBridge.telemetry_data (its link_stats entry)
    \* ---- one call of add_data, iteration by iteration (SpecScan)
    scanPc,      \* "loop" while the while loop of add_data runs, "done" after it
    scanIter,    \* iterations of the loop begun so far
    \* ---- CRSFFrame.build and the frame constructors (SpecCodec)
    codecReq,    \* what the caller asked for: <<"frame">>, <<"ping", destination, origin>> or <<"heartbeat">>
    codecIn,     \* the CRSFFrame object constructed, None before
    codecOut,    \* the bytes build() returned for it, None before
    \* ---- HalfDuplexUART (SpecHalfDuplex)
    hd,          \* the transceiver: is_running, is_tx_mode, the DIR pin, the port's input buffer
    hdLock,      \* HalfDuplexUART.thread_lock: "none" or "send"
    hdRxPc,      \* where _rx_loop stands
    hdSendPc,    \* where the sending thread stands in send()
    hdIdx,       \* bytes of the current send already written
    hdLog,       \* results of the send() calls so far
    hdPeer,      \* bytes the peer has put on the bus
    hdData,      \* what the last serial.read returned, until the callback has run
    hdWire,      \* the bytes send() has written
    \* ---- CRC-8 (SpecCrc)
    crcData,     \* the input byte string
    crcOut,      \* CRSFFrame.calc_crc(crcData), None until applied
    tabOut,      \* channel_parser.crc8(crcData), None until applied
    flipBit,     \* the bit position flipped, None until applied
    flipOut,     \* calc_crc of crcData with bit flipBit flipped
    flipFrames,  \* what a fresh parser returns for the altered frame with the original CRC
    \* ---- UDPTransport (SpecUdp)
    now,         \* time.time(), in whole seconds
    stats,       \* UDPTransport.stats
    rxData,      \* the datagram socket.recvfrom returned last
    dataCalls,   \* payloads handed to data_callback
    statusCalls, \* payloads handed to status_callback
    txLog,       \* packets handed to socket.sendto, as <<type, payload>>
    rxPc,        \* where _rx_loop stands: "recv", "count", "activate" or "dispatch"
    rxCount,     \* datagrams recvfrom has returned
    hbPc,        \* where _heartbeat_loop stands: "send", "check", "clear" or "sleep"
    hbWake,      \* when its sleep(5.0) ends
    sendCalls,   \* calls of send_crsf_data so far: <<data, result, connection_active at the call>>
    \* ---- DualGPIO_UART and the threads of SmartBridge that use it (SpecUart)
    uart,        \* the transceiver: is_running, ser.is_open, lines requested, the two enable lines, input buffer
    lock,        \* DualGPIO_UART._lock: "none" or the thread that holds it
    readPc,      \* where _read_loop stands
    readData,    \* its local variable data
    sendPc,      \* per sending thread: where its call of send() stands
    sendIdx,     \* per sending thread: bytes of the current call written so far
    sendLog,     \* per sending thread: outcomes of its finished calls ("True", "False", "raised")
    mainPc,      \* where the main thread stands: running, or inside SmartBridge.stop()
    udpUp,       \* udp_transport: is_running, and whether its socket is open
    wire,        \* bytes put on the bus, as <<thread, index>>
    delivered,   \* bytes handed to the data callback
    fatal,       \* whether _read_loop has hit a SerialException
    peerCount,   \* bytes the peer has put on the bus
    \* ---- _send_packet called from three threads (SpecStats)
    spPc,        \* per thread: where it stands in _send_packet
    spTmp,       \* per thread: the counter value it has read and not yet written back
    spRet,       \* per thread: calls of _send_packet that have returned True
    \* ---- one envelope from a peer's _send_packet to this transport (SpecEnvelope)
    envReq,      \* the call _send_packet(packet_type, data) the peer made, None before
    envWire,     \* the datagram that call handed to sendto, None before
    \* ---- two connected UDPTransport peers (SpecPeers)
    pNet,        \* per peer: the datagrams on their way to it, oldest first
    pTicks,      \* per peer: heartbeats its _heartbeat_loop has originated
    pSent,       \* per peer: HEARTBEAT envelopes it has sent, of either origin
    \* ---- SmartBridge frame callbacks (SpecDispatch)
    frame_callbacks, \* the keys of SmartBridge.frame_callbacks; a callback is named by its key
    frameStats,  \* stats['uart_frames_rx'] and stats['udp_frames_rx']
    dispLog      \* per frame processed: its side and type, and the callbacks invoked for it

parserVars == <<mode, stream, pos, buffer, frames, raised, calls, udpSent, telemetry>>
crcVars == <<crcData, crcOut, tabOut, flipBit, flipOut, flipFrames>>
udpVars == <<now, stats, rxData, rxPc, rxCount, dataCalls, statusCalls, txLog, hbPc, hbWake,
             sendCalls>>
uartVars == <<uart, lock, readPc, readData, sendPc, sendIdx, sendLog, mainPc, udpUp,
              wire, delivered, fatal, peerCount>>
scanVars == <<scanPc, scanIter>>
codecVars == <<codecReq, codecIn, codecOut>>
hdVars == <<hd, hdLock, hdRxPc, hdSendPc, hdIdx, hdLog, hdPeer, hdData, hdWire>>
statVars == <<spPc, spTmp, spRet>>
envVars == <<envReq, envWire>>
peerVars == <<pNet, pTicks, pSent>>
dispVars == <<frame_callbacks, frameStats, dispLog>>
vars == <<parserVars, crcVars, udpVars, uartVars, scanVars, codecVars, hdVars, statVars, envVars, peerVars, dispVars>>

\* an absent value is the empty tuple, a present one a 1-tuple
None == <<>>
Some(v) == <<v>>

(***************************************************************************)
(* Bounds of the model.                                                    *)
(***************************************************************************)
MaxNoise == 2      \* noise bytes in front of the frame
MaxPayload == 2    \* payload bytes of a sampled frame
MaxCrcLen == 3     \* bytes of a sampled CRC input
MaxBody == 2       \* bytes that follow the header of a sampled datagram
MaxTime == 22      \* seconds the clock runs
MaxRx == 2         \* datagrams received in one run
DataLen == 2       \* bytes of one send() on the serial bus
MaxSends == 1      \* calls of send() per sending thread
MaxPeer == 1       \* bytes the peer puts on the bus
MaxCrsfSends == 1  \* calls of send_crsf_data in one run
MaxHdSends == 2    \* calls of HalfDuplexUART.send
MaxHdPeer == 2     \* bytes the peer puts on the half-duplex bus
MaxTx == 2         \* calls of _send_packet per thread
MaxEnvLen == 2     \* the short payload lengths of a sampled envelope
MaxTicks == 2      \* heartbeats each peer's timer originates
MaxEchoes == 6     \* HEARTBEAT envelopes a peer sends before the run is cut off
MaxDispatch == 3   \* frames handed to _process_uart_frame / _process_udp_frame
MaxStream == 6     \* the longest stream delivered in SpecBridge

(***************************************************************************)
(* Byte arithmetic.                                                        *)
(***************************************************************************)
Byte == 0..255

RECURSIVE BitXor(_, _, _)
\* a ^ b on the low n bits
BitXor(a, b, n) ==
    IF n = 0 THEN 0
    ELSE (((a % 2) + (b % 2)) % 2) + 2 * BitXor(a \div 2, b \div 2, n - 1)

RECURSIVE Pow2(_)
Pow2(n) == IF n = 0 THEN 1 ELSE 2 * Pow2(n - 1)

\* b[lo:hi] of Python, 0-based, hi exclusive, both clipped to the length
Slice(s, lo, hi) ==
    LET h == IF hi > Len(s) THEN Len(s) ELSE hi
    IN IF lo >= h THEN <<>> ELSE SubSeq(s, lo + 1, h)

(***************************************************************************)
(* crsf_protocol.py: constants.                                            *)
(***************************************************************************)
SYNC_BYTE == 200
CRSF_ADDRESS_FLIGHT_CONTROLLER == 200
CRSF_ADDRESS_RADIO_TRANSMITTER == 234
CRSF_ADDRESS_RECEIVER == 236
CRSF_ADDRESS_TRANSMITTER == 238

VALID_SYNC_BYTES ==
    <<CRSF_ADDRESS_FLIGHT_CONTROLLER, CRSF_ADDRESS_RADIO_TRANSMITTER,
      CRSF_ADDRESS_RECEIVER, CRSF_ADDRESS_TRANSMITTER>>

\* the values of the enum CRSFFrameType
CRSFFrameType == {2, 8, 11, 20, 22, 30, 33, 40, 41, 43, 44, 45}

LINK_STATISTICS == 20
PING == 40

(***************************************************************************)
(* CRSFFrame.calc_crc: bitwise CRC-8.                                      *)
(***************************************************************************)
\* a wrong shift step: the polynomial is applied LSB-first (reflected)
CrcShiftReflected(crc) ==
    IF crc % 2 = 1 THEN BitXor(crc \div 2, 171, 8) ELSE crc \div 2

\* one pass of the inner loop: if crc & 0x80: crc = (crc << 1) ^ 0xD5 else crc <<= 1; crc &= 0xFF
CrcShift(crc) ==
    IF (crc \div 128) % 2 = 1
    THEN BitXor(crc * 2, 213, 9) % 256
    ELSE (crc * 2) % 256

RECURSIVE CrcBits(_, _)
\* for _ in range(n): shift (the test on c has it computed before the next pass)
CrcBits(crc, n) ==
    IF n = 0 THEN crc
    ELSE LET c == CrcShift(crc) IN IF c < 0 THEN c ELSE CrcBits(c, n - 1)

\* a wrong byte step: the running value is overwritten, not xored
CrcByteOverwrite(crc, b) == CrcBits(b, 8)

\* one pass of the outer loop: crc ^= b, then eight shifts
CrcByte(crc, b) == CrcBits(BitXor(crc, b, 8), 8)

RECURSIVE CrcFold(_, _)
\* for b in data: one byte step (c is computed before the next byte)
CrcFold(crc, data) ==
    IF data = <<>> THEN crc
    ELSE LET c == CrcByte(crc, Head(data)) IN IF c < 0 THEN c ELSE CrcFold(c, Tail(data))

calc_crc(data) == CrcFold(0, data)

(***************************************************************************)
(* channel_parser.py: table-driven CRC-8.                                  *)
(***************************************************************************)
crc8_table == <<
    0, 213, 127, 170, 254, 43, 129, 84, 41, 252, 86, 131, 215, 2, 168, 125,
    82, 135, 45, 248, 172, 121, 211, 6, 123, 174, 4, 209, 133, 80, 250, 47,
    164, 113, 219, 14, 90, 143, 37, 240, 141, 88, 242, 39, 115, 166, 12, 217,
    246, 35, 137, 92, 8, 221, 119, 162, 223, 10, 160, 117, 33, 244, 94, 139,
    157, 72, 226, 55, 99, 182, 28, 201, 180, 97, 203, 30, 74, 159, 53, 224,
    207, 26, 176, 101, 49, 228, 78, 155, 230, 51, 153, 76, 24, 205, 103, 178,
    57, 236, 70, 147, 199, 18, 184, 109, 16, 197, 111, 186, 238, 59, 145, 68,
    107, 190, 20, 193, 149, 64, 234, 63, 66, 151, 61, 232, 188, 105, 195, 22,
    239, 58, 144, 69, 17, 196, 110, 187, 198, 19, 185, 108, 56, 237, 71, 146,
    189, 104, 194, 23, 67, 150, 60, 233, 148, 65, 235, 62, 106, 191, 21, 192,
    75, 158, 52, 225, 181, 96, 202, 31, 98, 183, 29, 200, 156, 73, 227, 54,
    25, 204, 102, 179, 231, 50, 152, 77, 48, 229, 79, 154, 206, 27, 177, 100,
    114, 167, 13, 216, 140, 89, 243, 38, 91, 142, 36, 241, 165, 112, 218, 15,
    32, 245, 95, 138, 222, 11, 161, 116, 9, 220, 118, 163, 247, 34, 136, 93,
    214, 3, 169, 124, 40, 253, 87, 130, 255, 42, 128, 85, 1, 212, 126, 171,
    132, 81, 251, 46, 122, 175, 5, 208, 173, 120, 210, 7, 83, 134, 44, 249
>>

RECURSIVE Crc8Fold(_, _)
\* for byte in data: crc = crc8_table[crc ^ byte]
Crc8Fold(crc, data) ==
    IF data = <<>> THEN crc
    ELSE Crc8Fold(crc8_table[BitXor(crc, Head(data), 8) + 1], Tail(data))

crc8(data) == Crc8Fold(0, data)

(***************************************************************************)
(* CRSFFrame: a frame object.  destination and origin are attributes only  *)
(* of frames on which a caller has set them (create_ping_frame); on any    *)
(* other frame they are absent, written None.                              *)
(***************************************************************************)
CRSFFrame(frame_type, payload, sync_byte) ==
    [frame_type |-> frame_type, payload |-> payload, sync_byte |-> sync_byte,
     destination |-> None, origin |-> None]

WithAddress(f, destination, origin) ==
    [f EXCEPT !.destination = Some(destination), !.origin = Some(origin)]

\* CRSFFrame.build
build(f) ==
    LET length == 1 + Len(f.payload) + 1
        crc_data == <<f.frame_type>> \o f.payload
        crc == calc_crc(crc_data)
    IN <<f.sync_byte, length, f.frame_type>> \o f.payload \o <<crc>>

\* CRSFAddress.BROADCAST
BROADCAST == 0

\* create_ping_frame(destination, origin): the first argument of CRSFFrame
\* is the frame type, and the two addresses are set as attributes afterwards
create_ping_frame(destination, origin) ==
    WithAddress(CRSFFrame(CRSF_ADDRESS_TRANSMITTER, <<>>, SYNC_BYTE), destination, origin)

\* create_heartbeat_frame(): create_ping_frame() with its defaults
create_heartbeat_frame == create_ping_frame(BROADCAST, CRSF_ADDRESS_FLIGHT_CONTROLLER)

(***************************************************************************)
(* CRSFParser.add_data.                                                    *)
(***************************************************************************)
RECURSIVE FindFrom(_, _, _)
\* bytearray.find(b): the 0-based index of the first b at or after i, or -1
FindFrom(buf, b, i) ==
    IF i >= Len(buf) THEN -1
    ELSE IF buf[i + 1] = b THEN i
    ELSE FindFrom(buf, b, i + 1)

RECURSIVE SyncScan(_, _)
\* for sync_byte in VALID_SYNC_BYTES: sync_index = buffer.find(sync_byte); stop at the first hit
SyncScan(buf, k) ==
    IF k > Len(VALID_SYNC_BYTES) THEN -1
    ELSE LET sync_index == FindFrom(buf, VALID_SYNC_BYTES[k], 0)
         IN IF sync_index # -1 THEN sync_index ELSE SyncScan(buf, k + 1)

\* a parser whose calc_crc lookup succeeds and returns the frame CRC
ParserCalcCrcDefined(data) == [raises |-> FALSE, value |-> calc_crc(data)]

\* self.calc_crc(crc_payload) inside CRSFParser: the class defines __init__ and
\* add_data only and has no base class, so the attribute lookup raises
\* AttributeError, which add_data's "except IndexError" does not catch.
ParserCalcCrc(data) == [raises |-> TRUE, value |-> 0]

RECURSIVE ScanLoop(_, _)
\* the while loop of add_data, from a buffer and the frames found so far
ScanLoop(buf, out) ==
    IF ~(Len(buf) > 2) THEN [buffer |-> buf, frames |-> out, raised |-> FALSE]
    ELSE
    LET sync_index == SyncScan(buf, 1) IN
    IF sync_index = -1 THEN [buffer |-> buf, frames |-> out, raised |-> FALSE]
    ELSE
    LET b1 == IF sync_index > 0 THEN Slice(buf, sync_index, Len(buf)) ELSE buf IN
    IF Len(b1) < 2 THEN [buffer |-> b1, frames |-> out, raised |-> FALSE]
    ELSE
    LET frame_len == b1[2] IN
    IF frame_len < 2 \/ frame_len > 62 THEN ScanLoop(Tail(b1), out)
    ELSE IF Len(b1) < frame_len + 2
    THEN [buffer |-> b1, frames |-> out, raised |-> FALSE]
    ELSE
    LET packet == Slice(b1, 0, frame_len + 2)
        crc_payload == Slice(packet, 2, frame_len + 1)
        crc_received == packet[frame_len + 2]
        crc_calculated == ParserCalcCrc(crc_payload)
        frame_type_val == packet[3]
        payload == Slice(packet, 3, frame_len + 1)
        \* CRSFFrameType(frame_type_val) or, on ValueError, the bare value:
        \* CRSFFrame.__init__ stores the number either way
        frame == CRSFFrame(frame_type_val, payload, packet[1])
        rest == Slice(b1, frame_len + 2, Len(b1))
    IN IF crc_calculated.raises
       THEN [buffer |-> b1, frames |-> <<>>, raised |-> TRUE]
       ELSE IF crc_calculated.value = crc_received
       THEN ScanLoop(rest, Append(out, frame))
       ELSE ScanLoop(rest, out)

\* add_data(data) on a parser whose buffer is buf: the buffer left behind, the
\* list returned, and whether the call raised instead of returning
add_data(buf, data) == ScanLoop(buf \o data, <<>>)

\* a wrong pop: the sync byte with the invalid length is kept
PopFrontKeep(buf) == buf

\* self.buffer.pop(0)
PopFront(buf) == Tail(buf)

\* one pass of the while loop of add_data, entered with len(buffer) > 2:
\* the buffer and frame list it leaves, whether it ended the loop (break or
\* exception), and whether it raised
ScanStep(buf, out) ==
    LET sync_index == SyncScan(buf, 1) IN
    IF sync_index = -1 THEN [buffer |-> buf, frames |-> out, done |-> TRUE, raised |-> FALSE]
    ELSE
    LET b1 == IF sync_index > 0 THEN Slice(buf, sync_index, Len(buf)) ELSE buf IN
    IF Len(b1) < 2 THEN [buffer |-> b1, frames |-> out, done |-> TRUE, raised |-> FALSE]
    ELSE
    LET frame_len == b1[2] IN
    IF frame_len < 2 \/ frame_len > 62
    THEN [buffer |-> PopFront(b1), frames |-> out, done |-> FALSE, raised |-> FALSE]
    ELSE IF Len(b1) < frame_len + 2
    THEN [buffer |-> b1, frames |-> out, done |-> TRUE, raised |-> FALSE]
    ELSE
    LET packet == Slice(b1, 0, frame_len + 2)
        crc_payload == Slice(packet, 2, frame_len + 1)
        crc_received == packet[frame_len + 2]
        crc_calculated == ParserCalcCrc(crc_payload)
        frame == CRSFFrame(packet[3], Slice(packet, 3, frame_len + 1), packet[1])
        rest == Slice(b1, frame_len + 2, Len(b1))
    IN IF crc_calculated.raises
       THEN [buffer |-> b1, frames |-> <<>>, done |-> TRUE, raised |-> TRUE]
       ELSE [buffer |-> rest,
             frames |-> IF crc_calculated.value = crc_received THEN Append(out, frame) ELSE out,
             done |-> FALSE, raised |-> FALSE]

(***************************************************************************)
(* SmartBridge._on_uart_data: what it hands to send_crsf_data.             *)
(***************************************************************************)
RECURSIVE BuildAll(_)
BuildAll(fs) == IF fs = <<>> THEN <<>> ELSE <<build(Head(fs))>> \o BuildAll(Tail(fs))

\* r is the outcome of uart_parser.add_data(data); an exception leaves the handler at once
Forwarded(r, data) ==
    IF r.raised THEN <<>>
    ELSE IF r.frames # <<>> THEN BuildAll(r.frames)
    ELSE IF Len(data) > 0 THEN <<data>>
    ELSE <<>>

\* Python values as == compares them: an int and a member of the plain Enum
\* CRSFFrameType are never equal, whatever the member's value
PyInt(v) == <<"int", v>>

PyMember(v) == <<"CRSFFrameType", v>>

\* a signed byte, and a negated dBm value that is None for 0
SignedByte(b) == IF b < 128 THEN b ELSE b - 256

NegOrNone(b) == IF b > 0 THEN Some(0 - b) ELSE None

\* the dict _extract_telemetry_data stores for a LINK_STATISTICS payload
LinkStats(payload) ==
    [uplink_rssi_1 |-> NegOrNone(payload[1]),
     uplink_rssi_2 |-> NegOrNone(payload[2]),
     uplink_quality |-> payload[3],
     uplink_snr |-> SignedByte(payload[4]),
     antenna |-> payload[5],
     rf_mode |-> payload[6],
     tx_power |-> payload[7],
     downlink_rssi |-> NegOrNone(payload[8]),
     downlink_quality |-> payload[9],
     downlink_snr |-> SignedByte(payload[10])]

\* _extract_telemetry_data(frame): frame.frame_type is the int stored by
\* CRSFFrame.__init__, compared with the Enum member
ExtractTelemetry(tel, frame) ==
    IF PyInt(frame.frame_type) = PyMember(LINK_STATISTICS) /\ Len(frame.payload) >= 10
    THEN [tel EXCEPT !.link_stats = Some(LinkStats(frame.payload))]
    ELSE tel

\* _process_uart_frame on each frame add_data returned, in order
RECURSIVE ProcessAll(_, _)
ProcessAll(tel, fs) ==
    IF fs = <<>> THEN tel ELSE ProcessAll(ExtractTelemetry(tel, Head(fs)), Tail(fs))

(***************************************************************************)
(* The inputs of Spec: noise, then an encoded frame (possibly with its CRC *)
(* byte damaged), or noise alone.                                          *)
(***************************************************************************)
SeqsUpTo(S, n) == UNION {[1..k -> S] : k \in 0..n}

NoiseBytes == {1, 5, 200}
PayloadBytes == {1, 200}
SampleSyncs == {200, 234}
SampleTypes == {20, 40, 127}

Noises == SeqsUpTo(NoiseBytes, MaxNoise)

\* the wire format's extended types (0x28 and above); the codec itself has no
\* such test, only callers attach addresses to a frame
IsExtended(frame_type) == frame_type >= PING

\* the frames a caller may build: extended ones carry addresses
SampleFrames ==
    {IF IsExtended(t) THEN WithAddress(CRSFFrame(t, p, s), 0, 200) ELSE CRSFFrame(t, p, s) :
        t \in SampleTypes, p \in SeqsUpTo(PayloadBytes, MaxPayload), s \in SampleSyncs}

\* the wire bytes with the CRC byte damaged in its lowest bit
BadCrc(w) == [w EXCEPT ![Len(w)] = BitXor(w[Len(w)], 1, 8)]

Wires == {build(f) : f \in SampleFrames} \cup {BadCrc(build(f)) : f \in SampleFrames} \cup {<<>>}

\* a link statistics report as the transmitter module sends it
LinkStatsPayload == <<80, 0, 95, 250, 1, 2, 20, 0, 90, 6>>

LinkStatsFrame == CRSFFrame(LINK_STATISTICS, LinkStatsPayload, SYNC_BYTE)

Streams == ({n \o w : n \in Noises, w \in Wires} \ {<<>>}) \cup {build(LinkStatsFrame)}

(***************************************************************************)
(* udp_transport.py: the envelope and the two loops.                       *)
(***************************************************************************)
CRSF_DATA == 1
HEARTBEAT == 2
STATUS == 3

HeaderLen == 11          \* struct '!BQH': 1 + 8 + 2 bytes
TimeoutS == 15           \* seconds without data before the link counts as down
HeartbeatPeriodS == 5    \* time.sleep(5.0)
StartTime == 100         \* time.time() when the transport is constructed

PingBytes == <<112, 105, 110, 103>>   \* b'ping'
PongBytes == <<112, 111, 110, 103>>   \* b'pong'

RECURSIVE ToBE(_, _)
\* n as k big-endian bytes
ToBE(n, k) == IF k = 0 THEN <<>> ELSE ToBE(n \div 256, k - 1) \o <<n % 256>>

\* struct.pack('!BQH', packet_type, timestamp, length)
Pack(packet_type, timestamp, length) ==
    <<packet_type>> \o ToBE(timestamp, 8) \o ToBE(length, 2)

\* the data_length field of struct.unpack('!BQH', data[:11])
UnpackLength(data) == data[10] * 256 + data[11]

\* the packet_type field of struct.unpack('!BQH', data[:11])
UnpackType(data) == data[1]

\* payload = data[11:11+data_length]
UnpackPayload(data) == Slice(data, HeaderLen, HeaderLen + UnpackLength(data))

\* the two checks of _rx_loop that end in "continue"
Rejected(data) ==
    \/ Len(data) < HeaderLen
    \/ Len(UnpackPayload(data)) # UnpackLength(data)

\* the packet _send_packet builds at time t (socket open, transport running)
Envelope(packet_type, t, data) == Pack(packet_type, t * 1000000, Len(data)) \o data

\* _send_packet on the statistics: tx_packets += 1, tx_bytes += sent_bytes
SendStatsUncounted(st, packet) == st

SendStats(st, packet) ==
    [st EXCEPT !.tx_packets = @ + 1, !.tx_bytes = @ + Len(packet)]

(***************************************************************************)
(* The datagrams the socket may deliver: envelopes whose declared length   *)
(* is right, too large or too small, of every packet type and one unknown  *)
(* type, and the strict prefixes of a header.                              *)
(***************************************************************************)
BodyBytes == {7}
UdpTypes == {CRSF_DATA, HEARTBEAT, STATUS, 9}

Datagrams ==
    {Pack(t, 1, n) \o b : t \in UdpTypes, n \in 0..(MaxBody + 1), b \in SeqsUpTo(BodyBytes, MaxBody)}
    \cup {Slice(Pack(CRSF_DATA, 1, 0), 0, k) : k \in 0..(HeaderLen - 1)}

(***************************************************************************)
(* The inputs of SpecCrc: every single byte, and the byte strings over a   *)
(* few values with all bit patterns at their ends.                         *)
(***************************************************************************)
CrcBytes == {0, 20, 128, 255}

CrcInputs == {<<b>> : b \in Byte} \cup SeqsUpTo(CrcBytes, MaxCrcLen)

\* data with bit i flipped; bit 0 is the lowest bit of the first byte
FlipBit(data, i) ==
    [data EXCEPT ![(i \div 8) + 1] = BitXor(@, Pow2(i % 8), 8)]

\* the wire bytes of a frame whose CRC-covered region is region and whose CRC byte is crc
WireOf(region, crc) == <<SYNC_BYTE, Len(region) + 1>> \o region \o <<crc>>

IdleParser ==
    /\ mode = "parser" /\ stream = <<>> /\ pos = 0 /\ buffer = <<>>
    /\ frames = <<>> /\ raised = FALSE /\ calls = <<>> /\ udpSent = <<>>
    /\ telemetry = [link_stats |-> None]
    /\ scanPc = "done" /\ scanIter = 0

\* GPIO.HIGH and GPIO.LOW
HIGH == 1

LOW == 0

\* HalfDuplexUART after __init__ and start(): DIR low, port open, receive
\* thread started
\* the threads that call UDPTransport._send_packet: the serial reader
\* (send_crsf_data), the UDP receive loop (heartbeat echo), the heartbeat timer
SendPacketThreads == {"serial", "udp_rx", "timer"}

\* the two ends of the link, each configured with the other as its remote
Peers == {"a", "b"}

\* SmartBridge.__init__: no callbacks, counters at zero
IdleDispatch ==
    /\ frame_callbacks = {}
    /\ frameStats = [uart_frames_rx |-> 0, udp_frames_rx |-> 0]
    /\ dispLog = <<>>

IdlePeers ==
    /\ pNet = [p \in Peers |-> <<>>]
    /\ pTicks = [p \in Peers |-> 0]
    /\ pSent = [p \in Peers |-> 0]

IdleEnvelope == envReq = None /\ envWire = None

IdleStats ==
    /\ spPc = [t \in SendPacketThreads |-> "idle"]
    /\ spTmp = [t \in SendPacketThreads |-> 0]
    /\ spRet = [t \in SendPacketThreads |-> 0]

IdleHd ==
    /\ hd = [is_running |-> TRUE, is_tx_mode |-> FALSE, dir_pin |-> LOW, in_waiting |-> <<>>]
    /\ hdLock = "none"
    /\ hdRxPc = "top"
    /\ hdSendPc = "idle"
    /\ hdIdx = 0
    /\ hdLog = <<>>
    /\ hdPeer = 0
    /\ hdData = <<>>
    /\ hdWire = <<>>

IdleCodec == codecReq = None /\ codecIn = None /\ codecOut = None

IdleCrc ==
    /\ crcData = <<>> /\ crcOut = None /\ tabOut = None
    /\ flipBit = None /\ flipOut = None /\ flipFrames = None

IdleUdp ==
    /\ now = StartTime
    /\ stats = [tx_packets |-> 0, rx_packets |-> 0, tx_bytes |-> 0, rx_bytes |-> 0,
                last_rx_time |-> 0, connection_active |-> FALSE]
    /\ rxData = <<>>
    /\ rxPc = "recv"
    /\ rxCount = 0
    /\ dataCalls = <<>>
    /\ statusCalls = <<>>
    /\ txLog = <<>>
    /\ hbPc = "send"
    /\ hbWake = StartTime
    /\ sendCalls = <<>>

(***************************************************************************)
(* DualGPIO_UART as SmartBridge uses it.  Two threads call send(): the UDP *)
(* receive thread (through _on_udp_data) and the keep-alive timer          *)
(* (SmartBridge._heartbeat_loop).                                          *)
(***************************************************************************)
Senders == {"udp", "timer"}

\* _set_direction_tx and _set_direction_rx, as the writes they perform in order
DirectionTxWritesSwapped == << <<"tx_line", 1>>, <<"rx_line", 0>> >>

DirectionTxWrites == << <<"rx_line", 0>>, <<"tx_line", 1>> >>

DirectionRxWritesSwapped == << <<"rx_line", 1>>, <<"tx_line", 0>> >>

DirectionRxWrites == << <<"tx_line", 0>>, <<"rx_line", 1>> >>

\* gpiod Line.set_value on a requested line
SetValueIgnored(u, w) == u

SetValue(u, w) == [u EXCEPT ![w[1]] = w[2]]

\* whether acquiring threading.Lock succeeds now (it blocks otherwise)
LockFreeAlways(l) == TRUE

LockFreeNever(l) == FALSE

LockFree(l) == l = "none"

\* the state SmartBridge.start() leaves: lines requested with TX-enable 0
\* and RX-enable 1, port open, reader and timers started, transport up
IdleUart ==
    /\ uart = [is_running |-> TRUE, is_open |-> TRUE, held |-> TRUE,
               tx_line |-> 0, rx_line |-> 1, in_waiting |-> <<>>]
    /\ lock = "none"
    /\ readPc = "top"
    /\ readData = <<>>
    /\ sendPc = [s \in Senders |-> "idle"]
    /\ sendIdx = [s \in Senders |-> 0]
    /\ sendLog = [s \in Senders |-> <<>>]
    /\ mainPc = "run"
    /\ udpUp = [is_running |-> TRUE, socket |-> TRUE]
    /\ wire = <<>>
    /\ delivered = <<>>
    /\ fatal = FALSE
    /\ peerCount = 0

Init ==
    /\ mode \in {"parser", "bridge"}
    /\ stream \in Streams
    /\ pos = 0
    /\ buffer = <<>>
    /\ frames = <<>>
    /\ raised = FALSE
    /\ calls = <<>>
    /\ udpSent = <<>>
    /\ telemetry = [link_stats |-> None]
    /\ scanPc = "done" /\ scanIter = 0
    /\ IdleCrc
    /\ IdleUdp
    /\ IdleUart
    /\ IdleCodec
    /\ IdleHd
    /\ IdleStats
    /\ IdleEnvelope
    /\ IdlePeers
    /\ IdleDispatch

\* a caller hands the next k bytes of the stream to parser.add_data
AddData(k) ==
    /\ mode = "parser"
    /\ pos + k <= Len(stream)
    /\ LET data == SubSeq(stream, pos + 1, pos + k)
           r == add_data(buffer, data)
       IN /\ buffer' = r.buffer
          /\ frames' = r.frames
          /\ raised' = r.raised
          /\ calls' = Append(calls, [frames |-> r.frames, raised |-> r.raised])
    /\ pos' = pos + k
    /\ UNCHANGED <<mode, stream, udpSent, telemetry, crcVars, udpVars, uartVars, scanVars, codecVars, hdVars, statVars, envVars, peerVars, dispVars>>

\* the serial reader hands the next k bytes of the stream to _on_uart_data
OnUartData(k) ==
    /\ mode = "bridge"
    /\ pos + k <= Len(stream)
    /\ LET data == SubSeq(stream, pos + 1, pos + k)
           r == add_data(buffer, data)
       IN /\ buffer' = r.buffer
          /\ frames' = r.frames
          /\ raised' = r.raised
          /\ calls' = Append(calls, [frames |-> r.frames, raised |-> r.raised])
          /\ udpSent' = udpSent \o Forwarded(r, data)
          /\ telemetry' = ProcessAll(telemetry, r.frames)
    /\ pos' = pos + k
    /\ UNCHANGED <<mode, stream, crcVars, udpVars, uartVars, scanVars, codecVars, hdVars, statVars, envVars, peerVars, dispVars>>

Next ==
    \/ \E k \in 1..(MaxNoise + MaxPayload + 4) : AddData(k)
    \/ \E k \in 1..(MaxNoise + MaxPayload + 4) : OnUartData(k)

Spec == Init /\ [][Next]_vars

(***************************************************************************)
(* SpecBridge: the short streams of Spec, each delivered in chunks to      *)
(* SmartBridge._on_uart_data.                                              *)
(***************************************************************************)
BridgeStreams == {s \in Streams : Len(s) <= MaxStream}

InitBridge ==
    /\ mode = "bridge"
    /\ stream \in BridgeStreams
    /\ pos = 0
    /\ buffer = <<>>
    /\ frames = <<>>
    /\ raised = FALSE
    /\ calls = <<>>
    /\ udpSent = <<>>
    /\ telemetry = [link_stats |-> None]
    /\ scanPc = "done" /\ scanIter = 0
    /\ IdleCrc
    /\ IdleUdp
    /\ IdleUart
    /\ IdleCodec
    /\ IdleHd
    /\ IdleStats
    /\ IdleEnvelope
    /\ IdlePeers
    /\ IdleDispatch

NextBridge == \E k \in 1..MaxStream : OnUartData(k)

SpecBridge == InitBridge /\ [][NextBridge]_vars

(***************************************************************************)
(* SpecCrc: the CRC functions applied to a chosen input.                   *)
(***************************************************************************)
InitCrc ==
    /\ crcData \in CrcInputs
    /\ crcOut = None /\ tabOut = None
    /\ flipBit = None /\ flipOut = None /\ flipFrames = None
    /\ IdleParser
    /\ IdleUdp
    /\ IdleUart
    /\ IdleCodec
    /\ IdleHd
    /\ IdleStats
    /\ IdleEnvelope
    /\ IdlePeers
    /\ IdleDispatch

ApplyCalcCrc ==
    /\ crcOut = None
    /\ crcOut' = Some(calc_crc(crcData))
    /\ UNCHANGED <<crcData, tabOut, flipBit, flipOut, flipFrames, parserVars, udpVars, uartVars, scanVars, codecVars, hdVars, statVars, envVars, peerVars, dispVars>>

ApplyCrc8 ==
    /\ tabOut = None
    /\ tabOut' = Some(crc8(crcData))
    /\ UNCHANGED <<crcData, crcOut, flipBit, flipOut, flipFrames, parserVars, udpVars, uartVars, scanVars, codecVars, hdVars, statVars, envVars, peerVars, dispVars>>

\* bit i of the input is flipped in transit; the CRC byte is the original's
ApplyFlip(i) ==
    /\ flipBit = None
    /\ i < 8 * Len(crcData)
    /\ flipBit' = Some(i)
    /\ flipOut' = Some(calc_crc(FlipBit(crcData, i)))
    /\ flipFrames' = Some(add_data(<<>>, WireOf(FlipBit(crcData, i), calc_crc(crcData))))
    /\ UNCHANGED <<crcData, crcOut, tabOut, parserVars, udpVars, uartVars, scanVars, codecVars, hdVars, statVars, envVars, peerVars, dispVars>>

NextCrc ==
    \/ ApplyCalcCrc
    \/ ApplyCrc8
    \/ \E i \in 0..(8 * MaxCrcLen - 1) : ApplyFlip(i)

SpecCrc == InitCrc /\ [][NextCrc]_vars

(***************************************************************************)
(* SpecUdp: _rx_loop and _heartbeat_loop of a started transport, and the   *)
(* clock.  A statement takes no time; time passes only while the receive   *)
(* loop waits in recvfrom and the heartbeat loop sleeps.                   *)
(***************************************************************************)
InitUdp ==
    /\ IdleUdp
    /\ IdleParser
    /\ IdleCrc
    /\ IdleUart
    /\ IdleCodec
    /\ IdleHd
    /\ IdleStats
    /\ IdleEnvelope
    /\ IdlePeers
    /\ IdleDispatch

\* data, addr = self.socket.recvfrom(1024), and the two checks that follow
RxRecv(d) ==
    /\ rxPc = "recv"
    /\ rxCount < MaxRx
    /\ rxData' = d
    /\ rxCount' = rxCount + 1
    /\ rxPc' = IF Rejected(d) THEN "recv" ELSE "count"
    /\ UNCHANGED <<sendCalls, now, stats, dataCalls, statusCalls, txLog, hbPc, hbWake, parserVars, crcVars, uartVars, scanVars, codecVars, hdVars, statVars, envVars, peerVars, dispVars>>

\* rx_packets += 1; rx_bytes += len(data); last_rx_time = time.time()
RxCount ==
    /\ rxPc = "count"
    /\ stats' = [stats EXCEPT !.rx_packets = @ + 1, !.rx_bytes = @ + Len(rxData),
                              !.last_rx_time = now]
    /\ rxPc' = "activate"
    /\ UNCHANGED <<sendCalls, now, rxData, rxCount, dataCalls, statusCalls, txLog, hbPc, hbWake, parserVars, crcVars, uartVars, scanVars, codecVars, hdVars, statVars, envVars, peerVars, dispVars>>

\* connection_active = True
RxActivate ==
    /\ rxPc = "activate"
    /\ stats' = [stats EXCEPT !.connection_active = TRUE]
    /\ rxPc' = "dispatch"
    /\ UNCHANGED <<sendCalls, now, rxData, rxCount, dataCalls, statusCalls, txLog, hbPc, hbWake, parserVars, crcVars, uartVars, scanVars, codecVars, hdVars, statVars, envVars, peerVars, dispVars>>

\* the if/elif chain on packet_type; eval of a STATUS text either yields a
\* dict for the callback or raises, and the bare except swallows it
RxDispatch ==
    /\ rxPc = "dispatch"
    /\ rxPc' = "recv"
    /\ LET packet_type == UnpackType(rxData)
           payload == UnpackPayload(rxData)
       IN \/ /\ packet_type = CRSF_DATA
             /\ dataCalls' = Append(dataCalls, payload)
             /\ UNCHANGED <<stats, statusCalls, txLog>>
          \/ /\ packet_type = HEARTBEAT
             /\ txLog' = Append(txLog, Envelope(HEARTBEAT, now, PongBytes))
             /\ stats' = SendStats(stats, Envelope(HEARTBEAT, now, PongBytes))
             /\ UNCHANGED <<dataCalls, statusCalls>>
          \/ /\ packet_type = STATUS
             /\ \E decoded \in BOOLEAN :
                    statusCalls' = IF decoded THEN Append(statusCalls, payload) ELSE statusCalls
             /\ UNCHANGED <<stats, dataCalls, txLog>>
          \/ /\ packet_type \notin {CRSF_DATA, HEARTBEAT, STATUS}
             /\ UNCHANGED <<stats, dataCalls, statusCalls, txLog>>
    /\ UNCHANGED <<sendCalls, now, rxData, rxCount, hbPc, hbWake, parserVars, crcVars, uartVars, scanVars, codecVars, hdVars, statVars, envVars, peerVars, dispVars>>

\* self._send_packet(UDPPacketType.HEARTBEAT, b'ping')
HbSend ==
    /\ hbPc = "send"
    /\ txLog' = Append(txLog, Envelope(HEARTBEAT, now, PingBytes))
    /\ stats' = SendStats(stats, Envelope(HEARTBEAT, now, PingBytes))
    /\ hbPc' = "check"
    /\ UNCHANGED <<sendCalls, now, rxData, rxPc, rxCount, dataCalls, statusCalls, hbWake, parserVars, crcVars, uartVars, scanVars, codecVars, hdVars, statVars, envVars, peerVars, dispVars>>

\* the test of: if time.time() - self.stats['last_rx_time'] > 15
LinkExpired(t, last_rx_time) == t - last_rx_time > TimeoutS

HbCheck ==
    /\ hbPc = "check"
    /\ IF LinkExpired(now, stats.last_rx_time)
       THEN hbPc' = "clear" /\ hbWake' = hbWake
       ELSE hbPc' = "sleep" /\ hbWake' = now + HeartbeatPeriodS
    /\ UNCHANGED <<sendCalls, now, stats, rxData, rxPc, rxCount, dataCalls, statusCalls, txLog, parserVars, crcVars, uartVars, scanVars, codecVars, hdVars, statVars, envVars, peerVars, dispVars>>

\* self.stats['connection_active'] = False, then time.sleep(5.0) begins
HbClear ==
    /\ hbPc = "clear"
    /\ stats' = [stats EXCEPT !.connection_active = FALSE]
    /\ hbPc' = "sleep"
    /\ hbWake' = now + HeartbeatPeriodS
    /\ UNCHANGED <<sendCalls, now, rxData, rxPc, rxCount, dataCalls, statusCalls, txLog, parserVars, crcVars, uartVars, scanVars, codecVars, hdVars, statVars, envVars, peerVars, dispVars>>

\* time.sleep(5.0) returns
HbWake ==
    /\ hbPc = "sleep"
    /\ now >= hbWake
    /\ hbPc' = "send"
    /\ UNCHANGED <<sendCalls, now, stats, rxData, rxPc, rxCount, dataCalls, statusCalls, txLog, hbWake, parserVars, crcVars, uartVars, scanVars, codecVars, hdVars, statVars, envVars, peerVars, dispVars>>

\* one second passes
Tick ==
    /\ now < StartTime + MaxTime
    /\ rxPc = "recv"
    /\ hbPc = "sleep"
    /\ now < hbWake
    /\ now' = now + 1
    /\ UNCHANGED <<sendCalls, stats, rxData, rxPc, rxCount, dataCalls, statusCalls, txLog, hbPc, hbWake, parserVars, crcVars, uartVars, scanVars, codecVars, hdVars, statVars, envVars, peerVars, dispVars>>

NextUdp ==
    \/ \E d \in Datagrams : RxRecv(d)
    \/ RxCount
    \/ RxActivate
    \/ RxDispatch
    \/ HbSend
    \/ HbCheck
    \/ HbClear
    \/ HbWake
    \/ Tick

SpecUdp == InitUdp /\ [][NextUdp]_vars

(***************************************************************************)
(* SpecRelay: SpecUdp's two loops, with the serial side calling            *)
(* send_crsf_data and the clock moving from one heartbeat wake-up to the   *)
(* next.                                                                   *)
(***************************************************************************)
\* a wrong gate: sending also requires the link to be reported active
SendGateLinkUp(socket, is_running) == socket /\ is_running /\ stats.connection_active

\* _send_packet goes on unless: if not self.socket or not self.is_running
SendGate(socket, is_running) == socket /\ is_running

\* the payloads the serial side hands to send_crsf_data
CrsfPayloads == {<<7>>}

\* the envelopes the peer sends: one data envelope and one heartbeat
RelayDatagrams == {Envelope(CRSF_DATA, 1, <<7>>), Envelope(HEARTBEAT, 1, PingBytes)}

\* the serial reader thread calls udp_transport.send_crsf_data(data)
SendCrsf(data) ==
    /\ Len(sendCalls) < MaxCrsfSends
    /\ IF SendGate(udpUp.socket, udpUp.is_running)
       THEN /\ txLog' = Append(txLog, Envelope(CRSF_DATA, now, data))
            /\ stats' = SendStats(stats, Envelope(CRSF_DATA, now, data))
            /\ sendCalls' = Append(sendCalls, <<data, TRUE, stats.connection_active>>)
       ELSE /\ sendCalls' = Append(sendCalls, <<data, FALSE, stats.connection_active>>)
            /\ UNCHANGED <<txLog, stats>>
    /\ UNCHANGED <<now, rxData, rxPc, rxCount, dataCalls, statusCalls, hbPc, hbWake,
                   parserVars, crcVars, uartVars, scanVars, codecVars, hdVars, statVars, envVars, peerVars, dispVars>>

\* time passes until the heartbeat loop's sleep ends
SleepToWake ==
    /\ rxPc = "recv"
    /\ hbPc = "sleep"
    /\ now < hbWake
    /\ hbWake <= StartTime + MaxTime
    /\ now' = hbWake
    /\ UNCHANGED <<stats, rxData, rxPc, rxCount, dataCalls, statusCalls, txLog, hbPc, hbWake,
                   sendCalls, parserVars, crcVars, uartVars, scanVars, codecVars, hdVars, statVars, envVars, peerVars, dispVars>>

NextRelay ==
    \/ \E d \in RelayDatagrams : RxRecv(d)
    \/ RxCount
    \/ RxActivate
    \/ RxDispatch
    \/ HbSend
    \/ HbCheck
    \/ HbClear
    \/ HbWake
    \/ SleepToWake
    \/ \E data \in CrsfPayloads : SendCrsf(data)

SpecRelay == InitUdp /\ [][NextRelay]_vars

(***************************************************************************)
(* SpecUart: the serial reader, the two threads that call send(), and the  *)
(* main thread, which runs until interrupted and then executes             *)
(* SmartBridge.stop().  One step is one statement of one thread.           *)
(***************************************************************************)
InitUart ==
    /\ IdleUart
    /\ IdleCodec
    /\ IdleHd
    /\ IdleStats
    /\ IdleEnvelope
    /\ IdlePeers
    /\ IdleDispatch
    /\ IdleParser
    /\ IdleCrc
    /\ IdleUdp

\* ---- _read_loop
\* while self.is_running:
ReadTop ==
    /\ readPc = "top"
    /\ readPc' = IF uart.is_running THEN "check" ELSE "done"
    /\ UNCHANGED <<uart, lock, readData, sendPc, sendIdx, sendLog, mainPc, udpUp,
                   wire, delivered, fatal, peerCount, parserVars, crcVars, udpVars, scanVars, codecVars, hdVars, statVars, envVars, peerVars, dispVars>>

\* if self.ser and self.ser.is_open and self.ser.in_waiting > 0; otherwise
\* the loop sleeps 1 ms and starts over
ReadCheck ==
    /\ readPc = "check"
    /\ readPc' = IF uart.is_open /\ uart.in_waiting # <<>> THEN "lock" ELSE "top"
    /\ UNCHANGED <<uart, lock, readData, sendPc, sendIdx, sendLog, mainPc, udpUp,
                   wire, delivered, fatal, peerCount, parserVars, crcVars, udpVars, scanVars, codecVars, hdVars, statVars, envVars, peerVars, dispVars>>

\* with self._lock:
ReadLock ==
    /\ readPc = "lock"
    /\ LockFree(lock)
    /\ lock' = "reader"
    /\ readPc' = "rx1"
    /\ UNCHANGED <<uart, readData, sendPc, sendIdx, sendLog, mainPc, udpUp,
                   wire, delivered, fatal, peerCount, parserVars, crcVars, udpVars, scanVars, codecVars, hdVars, statVars, envVars, peerVars, dispVars>>

\* self._set_direction_rx(), one set_value per step; set_value on a released
\* line raises, which leaves the with block and is logged by the loop
ReadDirection ==
    /\ readPc \in {"rx1", "rx2"}
    /\ LET k == IF readPc = "rx1" THEN 1 ELSE 2
       IN IF uart.held
          THEN /\ uart' = SetValue(uart, DirectionRxWrites[k])
               /\ readPc' = IF k = 1 THEN "rx2" ELSE "read"
               /\ lock' = lock
          ELSE /\ uart' = uart
               /\ readPc' = "top"
               /\ lock' = "none"
    /\ UNCHANGED <<readData, sendPc, sendIdx, sendLog, mainPc, udpUp,
                   wire, delivered, fatal, peerCount, parserVars, crcVars, udpVars, scanVars, codecVars, hdVars, statVars, envVars, peerVars, dispVars>>

\* data = self.ser.read(self.ser.in_waiting), and the with block ends
ReadData ==
    /\ readPc = "read"
    /\ readData' = uart.in_waiting
    /\ uart' = [uart EXCEPT !.in_waiting = <<>>]
    /\ lock' = "none"
    /\ readPc' = "callback"
    /\ UNCHANGED <<sendPc, sendIdx, sendLog, mainPc, udpUp,
                   wire, delivered, fatal, peerCount, parserVars, crcVars, udpVars, scanVars, codecVars, hdVars, statVars, envVars, peerVars, dispVars>>

\* if data: self._data_callback(data)
ReadCallback ==
    /\ readPc = "callback"
    /\ delivered' = delivered \o readData
    /\ readPc' = "top"
    /\ UNCHANGED <<uart, lock, readData, sendPc, sendIdx, sendLog, mainPc, udpUp,
                   wire, fatal, peerCount, parserVars, crcVars, udpVars, scanVars, codecVars, hdVars, statVars, envVars, peerVars, dispVars>>

\* the port fails under in_waiting or read: except serial.SerialException
\* sets is_running = False and leaves the loop
ReadFatal ==
    /\ readPc \in {"check", "read"}
    /\ uart' = [uart EXCEPT !.is_running = FALSE]
    /\ lock' = IF lock = "reader" THEN "none" ELSE lock
    /\ readPc' = "done"
    /\ fatal' = TRUE
    /\ UNCHANGED <<readData, sendPc, sendIdx, sendLog, mainPc, udpUp,
                   wire, delivered, peerCount, parserVars, crcVars, udpVars, scanVars, codecVars, hdVars, statVars, envVars, peerVars, dispVars>>

\* ---- the threads that call send()
\* the loop condition of the thread: _rx_loop tests the transport's
\* is_running, SmartBridge._heartbeat_loop tests uart.is_running
LoopRunning(s) == IF s = "udp" THEN udpUp.is_running ELSE uart.is_running

\* where a thread continues when send() raises: _rx_loop catches and logs,
\* the keep-alive timer has no handler and ends
AfterRaise(s) == IF s = "udp" THEN "idle" ELSE "dead"

\* the thread passes its loop condition and calls self.uart.send(data)
SendCall(s) ==
    /\ sendPc[s] = "idle"
    /\ Len(sendLog[s]) < MaxSends
    /\ LoopRunning(s)
    /\ sendPc' = [sendPc EXCEPT ![s] = "check"]
    /\ UNCHANGED <<uart, lock, readPc, readData, sendIdx, sendLog, mainPc, udpUp,
                   wire, delivered, fatal, peerCount, parserVars, crcVars, udpVars, scanVars, codecVars, hdVars, statVars, envVars, peerVars, dispVars>>

\* the thread finds its loop condition false and ends
SendExit(s) ==
    /\ sendPc[s] = "idle"
    /\ ~LoopRunning(s)
    /\ sendPc' = [sendPc EXCEPT ![s] = "done"]
    /\ UNCHANGED <<uart, lock, readPc, readData, sendIdx, sendLog, mainPc, udpUp,
                   wire, delivered, fatal, peerCount, parserVars, crcVars, udpVars, scanVars, codecVars, hdVars, statVars, envVars, peerVars, dispVars>>

\* if not self.ser or not self.is_running: return False
SendCheck(s) ==
    /\ sendPc[s] = "check"
    /\ IF uart.is_running
       THEN sendPc' = [sendPc EXCEPT ![s] = "lock"] /\ sendLog' = sendLog
       ELSE /\ sendPc' = [sendPc EXCEPT ![s] = "idle"]
            /\ sendLog' = [sendLog EXCEPT ![s] = Append(@, "False")]
    /\ UNCHANGED <<uart, lock, readPc, readData, sendIdx, mainPc, udpUp,
                   wire, delivered, fatal, peerCount, parserVars, crcVars, udpVars, scanVars, codecVars, hdVars, statVars, envVars, peerVars, dispVars>>

\* with self._lock:
SendLock(s) ==
    /\ sendPc[s] = "lock"
    /\ LockFree(lock)
    /\ lock' = s
    /\ sendPc' = [sendPc EXCEPT ![s] = "tx1"]
    /\ UNCHANGED <<uart, readPc, readData, sendIdx, sendLog, mainPc, udpUp,
                   wire, delivered, fatal, peerCount, parserVars, crcVars, udpVars, scanVars, codecVars, hdVars, statVars, envVars, peerVars, dispVars>>

\* self._set_direction_tx(), one set_value per step, then the settle delay;
\* set_value on a released line raises out of send()
SendDirectionTx(s) ==
    /\ sendPc[s] \in {"tx1", "tx2"}
    /\ LET k == IF sendPc[s] = "tx1" THEN 1 ELSE 2
       IN IF uart.held
          THEN /\ uart' = SetValue(uart, DirectionTxWrites[k])
               /\ sendPc' = [sendPc EXCEPT ![s] = IF k = 1 THEN "tx2" ELSE "write"]
               /\ UNCHANGED <<lock, sendLog>>
          ELSE /\ uart' = uart
               /\ lock' = IF lock = s THEN "none" ELSE lock
               /\ sendLog' = [sendLog EXCEPT ![s] = Append(@, "raised")]
               /\ sendPc' = [sendPc EXCEPT ![s] = AfterRaise(s)]
    /\ UNCHANGED <<readPc, readData, sendIdx, mainPc, udpUp,
                   wire, delivered, fatal, peerCount, parserVars, crcVars, udpVars, scanVars, codecVars, hdVars, statVars, envVars, peerVars, dispVars>>

\* self.ser.write(write_data) and flush, one byte per step.  A byte goes on
\* the bus, and comes back into the input buffer when the receiver is
\* enabled.  On a closed port write raises SerialException: the except
\* clause makes the result False and the finally clause follows.
SendWrite(s) ==
    /\ sendPc[s] = "write"
    /\ IF uart.is_open
       THEN /\ wire' = Append(wire, <<s, sendIdx[s] + 1>>)
            /\ uart' = IF uart.held /\ uart.rx_line = 1
                       THEN [uart EXCEPT !.in_waiting = Append(@, <<s, sendIdx[s] + 1>>)]
                       ELSE uart
            /\ sendIdx' = [sendIdx EXCEPT ![s] = IF @ + 1 = DataLen THEN 0 ELSE @ + 1]
            /\ sendPc' = [sendPc EXCEPT ![s] = IF sendIdx[s] + 1 = DataLen THEN "fin1" ELSE "write"]
       ELSE /\ sendPc' = [sendPc EXCEPT ![s] = "err1"]
            /\ sendIdx' = [sendIdx EXCEPT ![s] = 0]
            /\ UNCHANGED <<wire, uart>>
    /\ UNCHANGED <<lock, readPc, readData, sendLog, mainPc, udpUp,
                   delivered, fatal, peerCount, parserVars, crcVars, udpVars, scanVars, codecVars, hdVars, statVars, envVars, peerVars, dispVars>>

\* finally: self._set_direction_rx(), one set_value per step; then the with
\* block ends and send() returns True, or False after a failed write
SendDirectionRx(s) ==
    /\ sendPc[s] \in {"fin1", "fin2", "err1", "err2"}
    /\ LET k == IF sendPc[s] \in {"fin1", "err1"} THEN 1 ELSE 2
           ok == sendPc[s] \in {"fin1", "fin2"}
       IN IF uart.held
          THEN /\ uart' = SetValue(uart, DirectionRxWrites[k])
               /\ IF k = 1
                  THEN /\ sendPc' = [sendPc EXCEPT ![s] = IF ok THEN "fin2" ELSE "err2"]
                       /\ UNCHANGED <<lock, sendLog>>
                  ELSE /\ sendPc' = [sendPc EXCEPT ![s] = "idle"]
                       /\ lock' = IF lock = s THEN "none" ELSE lock
                       /\ sendLog' = [sendLog EXCEPT ![s] = Append(@, IF ok THEN "True" ELSE "False")]
          ELSE /\ uart' = uart
               /\ lock' = IF lock = s THEN "none" ELSE lock
               /\ sendLog' = [sendLog EXCEPT ![s] = Append(@, "raised")]
               /\ sendPc' = [sendPc EXCEPT ![s] = AfterRaise(s)]
    /\ UNCHANGED <<readPc, readData, sendIdx, mainPc, udpUp,
                   wire, delivered, fatal, peerCount, parserVars, crcVars, udpVars, scanVars, codecVars, hdVars, statVars, envVars, peerVars, dispVars>>

\* ---- the main thread
\* KeyboardInterrupt ends main's sleep loop; the with block calls bridge.stop()
CtrlC ==
    /\ mainPc = "run"
    /\ mainPc' = "udp_stop"
    /\ UNCHANGED <<uart, lock, readPc, readData, sendPc, sendIdx, sendLog, udpUp,
                   wire, delivered, fatal, peerCount, parserVars, crcVars, udpVars, scanVars, codecVars, hdVars, statVars, envVars, peerVars, dispVars>>

\* UDPTransport.stop: self.is_running = False
UdpStop ==
    /\ mainPc = "udp_stop"
    /\ udpUp' = [udpUp EXCEPT !.is_running = FALSE]
    /\ mainPc' = "udp_join"
    /\ UNCHANGED <<uart, lock, readPc, readData, sendPc, sendIdx, sendLog,
                   wire, delivered, fatal, peerCount, parserVars, crcVars, udpVars, scanVars, codecVars, hdVars, statVars, envVars, peerVars, dispVars>>

\* self.rx_thread.join(timeout=1.0) returns because the thread has ended;
\* then the socket is closed
UdpJoin ==
    /\ mainPc = "udp_join"
    /\ sendPc["udp"] = "done"
    /\ udpUp' = [udpUp EXCEPT !.socket = FALSE]
    /\ mainPc' = "uart_stop"
    /\ UNCHANGED <<uart, lock, readPc, readData, sendPc, sendIdx, sendLog,
                   wire, delivered, fatal, peerCount, parserVars, crcVars, udpVars, scanVars, codecVars, hdVars, statVars, envVars, peerVars, dispVars>>

\* self.rx_thread.join(timeout=1.0) returns because the second has passed
UdpJoinTimeout ==
    /\ mainPc = "udp_join"
    /\ sendPc["udp"] # "done"
    /\ udpUp' = [udpUp EXCEPT !.socket = FALSE]
    /\ mainPc' = "uart_stop"
    /\ UNCHANGED <<uart, lock, readPc, readData, sendPc, sendIdx, sendLog,
                   wire, delivered, fatal, peerCount, parserVars, crcVars, udpVars, scanVars, codecVars, hdVars, statVars, envVars, peerVars, dispVars>>

\* DualGPIO_UART.stop: if not self.is_running: return; self.is_running = False
UartStop ==
    /\ mainPc = "uart_stop"
    /\ IF uart.is_running
       THEN uart' = [uart EXCEPT !.is_running = FALSE] /\ mainPc' = "join"
       ELSE uart' = uart /\ mainPc' = "done"
    /\ UNCHANGED <<lock, readPc, readData, sendPc, sendIdx, sendLog, udpUp,
                   wire, delivered, fatal, peerCount, parserVars, crcVars, udpVars, scanVars, codecVars, hdVars, statVars, envVars, peerVars, dispVars>>

\* self._reader_thread.join()
UartJoin ==
    /\ mainPc = "join"
    /\ readPc = "done"
    /\ mainPc' = "close"
    /\ UNCHANGED <<uart, lock, readPc, readData, sendPc, sendIdx, sendLog, udpUp,
                   wire, delivered, fatal, peerCount, parserVars, crcVars, udpVars, scanVars, codecVars, hdVars, statVars, envVars, peerVars, dispVars>>

\* self.ser.close()
UartClose ==
    /\ mainPc = "close"
    /\ uart' = [uart EXCEPT !.is_open = FALSE]
    /\ mainPc' = "release"
    /\ UNCHANGED <<lock, readPc, readData, sendPc, sendIdx, sendLog, udpUp,
                   wire, delivered, fatal, peerCount, parserVars, crcVars, udpVars, scanVars, codecVars, hdVars, statVars, envVars, peerVars, dispVars>>

\* self.tx_line.release(); self.rx_line.release(); self.chip.close()
UartRelease ==
    /\ mainPc = "release"
    /\ uart' = [uart EXCEPT !.held = FALSE]
    /\ mainPc' = "done"
    /\ UNCHANGED <<lock, readPc, readData, sendPc, sendIdx, sendLog, udpUp,
                   wire, delivered, fatal, peerCount, parserVars, crcVars, udpVars, scanVars, codecVars, hdVars, statVars, envVars, peerVars, dispVars>>

\* ---- the bus
\* the peer puts a byte on the bus while the receiver is enabled
PeerByte ==
    /\ peerCount < MaxPeer
    /\ uart.is_open /\ uart.held /\ uart.rx_line = 1
    /\ uart' = [uart EXCEPT !.in_waiting = Append(@, <<"peer", peerCount + 1>>)]
    /\ peerCount' = peerCount + 1
    /\ UNCHANGED <<lock, readPc, readData, sendPc, sendIdx, sendLog, mainPc, udpUp,
                   wire, delivered, fatal, parserVars, crcVars, udpVars, scanVars, codecVars, hdVars, statVars, envVars, peerVars, dispVars>>

ReaderStep == ReadTop \/ ReadCheck \/ ReadLock \/ ReadDirection \/ ReadData \/ ReadCallback

SenderStep(s) ==
    SendExit(s) \/ SendCheck(s) \/ SendLock(s) \/ SendDirectionTx(s) \/ SendWrite(s) \/ SendDirectionRx(s)

MainStep == UdpStop \/ UdpJoin \/ UdpJoinTimeout \/ UartStop \/ UartJoin \/ UartClose \/ UartRelease

NextUart ==
    \/ ReadTop
    \/ ReadCheck
    \/ ReadLock
    \/ ReadDirection
    \/ ReadData
    \/ ReadCallback
    \/ ReadFatal
    \/ \E s \in Senders : SendCall(s)
    \/ \E s \in Senders : SendExit(s)
    \/ \E s \in Senders : SendCheck(s)
    \/ \E s \in Senders : SendLock(s)
    \/ \E s \in Senders : SendDirectionTx(s)
    \/ \E s \in Senders : SendWrite(s)
    \/ \E s \in Senders : SendDirectionRx(s)
    \/ CtrlC
    \/ UdpStop
    \/ UdpJoin
    \/ UdpJoinTimeout
    \/ UartStop
    \/ UartJoin
    \/ UartClose
    \/ UartRelease
    \/ PeerByte

SpecUart == InitUart /\ [][NextUart]_vars

\* the threads are scheduled fairly; the interrupt, the port failure, the
\* peer and the arrival of datagrams are not the program's to promise
FairSpecUart ==
    /\ SpecUart
    /\ WF_vars(ReaderStep)
    /\ \A s \in Senders : WF_vars(SenderStep(s))
    /\ WF_vars(MainStep)

(***************************************************************************)
(* SpecScan: one call of add_data on a fresh parser, one pass of its while *)
(* loop per step.  stream is the buffer after self.buffer.extend(data).    *)
(***************************************************************************)
InitScan ==
    /\ mode = "scan"
    /\ stream \in Streams
    /\ buffer = stream
    /\ pos = 0 /\ frames = <<>> /\ raised = FALSE /\ calls = <<>> /\ udpSent = <<>>
    /\ telemetry = [link_stats |-> None]
    /\ scanPc = "loop"
    /\ scanIter = 0
    /\ IdleCrc
    /\ IdleUdp
    /\ IdleUart
    /\ IdleCodec
    /\ IdleHd
    /\ IdleStats
    /\ IdleEnvelope
    /\ IdlePeers
    /\ IdleDispatch

\* while len(self.buffer) > 2: one pass of the body
ScanIterate ==
    /\ scanPc = "loop"
    /\ scanIter' = scanIter + 1
    /\ IF Len(buffer) > 2
       THEN LET r == ScanStep(buffer, frames)
            IN /\ buffer' = r.buffer
               /\ frames' = r.frames
               /\ raised' = r.raised
               /\ scanPc' = IF r.done THEN "done" ELSE "loop"
       ELSE /\ scanPc' = "done"
            /\ UNCHANGED <<buffer, frames, raised>>
    /\ UNCHANGED <<mode, stream, pos, calls, udpSent, telemetry, crcVars, udpVars, uartVars, codecVars, hdVars, statVars, envVars, peerVars, dispVars>>

NextScan == ScanIterate

SpecScan == InitScan /\ [][NextScan]_vars

(***************************************************************************)
(* SpecCodec: a caller constructs a frame, directly or through             *)
(* create_ping_frame / create_heartbeat_frame, and encodes it.             *)
(***************************************************************************)
SampleAddresses == {BROADCAST, CRSF_ADDRESS_FLIGHT_CONTROLLER, CRSF_ADDRESS_RADIO_TRANSMITTER,
                    CRSF_ADDRESS_TRANSMITTER}

InitCodec ==
    /\ IdleCodec
    /\ IdleHd
    /\ IdleStats
    /\ IdleEnvelope
    /\ IdlePeers
    /\ IdleDispatch
    /\ IdleParser
    /\ IdleCrc
    /\ IdleUdp
    /\ IdleUart

\* frame = CRSFFrame(...), with addresses set on it when the type is extended
NewFrame(f) ==
    /\ codecReq = None
    /\ codecReq' = <<"frame">>
    /\ codecIn' = Some(f)
    /\ UNCHANGED <<codecOut, parserVars, crcVars, udpVars, uartVars, scanVars, hdVars, statVars, envVars, peerVars, dispVars>>

\* frame = create_ping_frame(destination, origin)
CreatePing(destination, origin) ==
    /\ codecReq = None
    /\ codecReq' = <<"ping", destination, origin>>
    /\ codecIn' = Some(create_ping_frame(destination, origin))
    /\ UNCHANGED <<codecOut, parserVars, crcVars, udpVars, uartVars, scanVars, hdVars, statVars, envVars, peerVars, dispVars>>

\* heartbeat = create_heartbeat_frame(), as SmartBridge._heartbeat_loop does
CreateHeartbeat ==
    /\ codecReq = None
    /\ codecReq' = <<"heartbeat">>
    /\ codecIn' = Some(create_heartbeat_frame)
    /\ UNCHANGED <<codecOut, parserVars, crcVars, udpVars, uartVars, scanVars, hdVars, statVars, envVars, peerVars, dispVars>>

\* frame.build()
ApplyBuild ==
    /\ codecIn # None
    /\ codecOut = None
    /\ codecOut' = Some(build(codecIn[1]))
    /\ UNCHANGED <<codecReq, codecIn, parserVars, crcVars, udpVars, uartVars, scanVars, hdVars, statVars, envVars, peerVars, dispVars>>

NextCodec ==
    \/ \E f \in SampleFrames : NewFrame(f)
    \/ \E destination, origin \in SampleAddresses : CreatePing(destination, origin)
    \/ CreateHeartbeat
    \/ ApplyBuild

SpecCodec == InitCodec /\ [][NextCodec]_vars

(***************************************************************************)
(* SpecHalfDuplex: HalfDuplexUART between start() and stop(): the receive  *)
(* thread (_rx_loop), one thread that calls send(), and the peer on the    *)
(* bus.  The DIR pin selects the direction of the level shifter.           *)
(***************************************************************************)
InitHalfDuplex ==
    /\ IdleHd
    /\ IdleStats
    /\ IdleEnvelope
    /\ IdlePeers
    /\ IdleDispatch
    /\ IdleCodec
    /\ IdleParser
    /\ IdleCrc
    /\ IdleUdp
    /\ IdleUart

\* ---- _rx_loop
\* while self.is_running:
HdRxTop ==
    /\ hdRxPc = "top"
    /\ hdRxPc' = IF hd.is_running THEN "check" ELSE "done"
    /\ UNCHANGED <<hd, hdLock, hdSendPc, hdIdx, hdLog, hdPeer, hdData, hdWire,
                   parserVars, crcVars, udpVars, uartVars, scanVars, codecVars, statVars, envVars, peerVars, dispVars>>

\* if not self.is_tx_mode and self.serial and self.serial.in_waiting > 0;
\* otherwise the loop sleeps 1 ms and starts over
HdRxCheck ==
    /\ hdRxPc = "check"
    /\ hdRxPc' = IF ~hd.is_tx_mode /\ hd.in_waiting # <<>> THEN "read" ELSE "top"
    /\ UNCHANGED <<hd, hdLock, hdSendPc, hdIdx, hdLog, hdPeer, hdData, hdWire,
                   parserVars, crcVars, udpVars, uartVars, scanVars, codecVars, statVars, envVars, peerVars, dispVars>>

\* data = self.serial.read(self.serial.in_waiting)
HdRxRead ==
    /\ hdRxPc = "read"
    /\ hdData' = hd.in_waiting
    /\ hd' = [hd EXCEPT !.in_waiting = <<>>]
    /\ hdRxPc' = "callback"
    /\ UNCHANGED <<hdLock, hdSendPc, hdIdx, hdLog, hdPeer, hdWire,
                   parserVars, crcVars, udpVars, uartVars, scanVars, codecVars, statVars, envVars, peerVars, dispVars>>

\* if data and self.rx_callback: self.rx_callback(data); then the 1 ms sleep
HdRxCallback ==
    /\ hdRxPc = "callback"
    /\ hdData' = <<>>
    /\ hdRxPc' = "top"
    /\ UNCHANGED <<hd, hdLock, hdSendPc, hdIdx, hdLog, hdPeer, hdWire,
                   parserVars, crcVars, udpVars, uartVars, scanVars, codecVars, statVars, envVars, peerVars, dispVars>>

\* ---- send
\* a thread calls send(data)
HdSendCall ==
    /\ hdSendPc = "idle"
    /\ Len(hdLog) < MaxHdSends
    /\ hdSendPc' = "check"
    /\ UNCHANGED <<hd, hdLock, hdRxPc, hdIdx, hdLog, hdPeer, hdData, hdWire,
                   parserVars, crcVars, udpVars, uartVars, scanVars, codecVars, statVars, envVars, peerVars, dispVars>>

\* if not self.serial or not self.is_running: return False
HdSendCheck ==
    /\ hdSendPc = "check"
    /\ IF hd.is_running
       THEN hdSendPc' = "lock" /\ hdLog' = hdLog
       ELSE hdSendPc' = "idle" /\ hdLog' = Append(hdLog, "False")
    /\ UNCHANGED <<hd, hdLock, hdRxPc, hdIdx, hdPeer, hdData, hdWire,
                   parserVars, crcVars, udpVars, uartVars, scanVars, codecVars, statVars, envVars, peerVars, dispVars>>

\* with self.thread_lock:
HdSendLock ==
    /\ hdSendPc = "lock"
    /\ hdLock = "none"
    /\ hdLock' = "send"
    /\ hdSendPc' = "tx_out"
    /\ UNCHANGED <<hd, hdRxPc, hdIdx, hdLog, hdPeer, hdData, hdWire,
                   parserVars, crcVars, udpVars, uartVars, scanVars, codecVars, statVars, envVars, peerVars, dispVars>>

\* _set_tx_mode: if not self.is_tx_mode: GPIO.output(self.dir_pin, GPIO.HIGH),
\* then self.is_tx_mode = True, one statement per step
HdSetTxMode ==
    /\ hdSendPc \in {"tx_out", "tx_flag"}
    /\ IF hdSendPc = "tx_out"
       THEN IF ~hd.is_tx_mode
            THEN hd' = [hd EXCEPT !.dir_pin = HIGH] /\ hdSendPc' = "tx_flag"
            ELSE hd' = hd /\ hdSendPc' = "reset"
       ELSE hd' = [hd EXCEPT !.is_tx_mode = TRUE] /\ hdSendPc' = "reset"
    /\ UNCHANGED <<hdLock, hdRxPc, hdIdx, hdLog, hdPeer, hdData, hdWire,
                   parserVars, crcVars, udpVars, uartVars, scanVars, codecVars, statVars, envVars, peerVars, dispVars>>

\* self.serial.reset_input_buffer(); self.serial.reset_output_buffer()
HdSendReset ==
    /\ hdSendPc = "reset"
    /\ hd' = [hd EXCEPT !.in_waiting = <<>>]
    /\ hdSendPc' = "write"
    /\ UNCHANGED <<hdLock, hdRxPc, hdIdx, hdLog, hdPeer, hdData, hdWire,
                   parserVars, crcVars, udpVars, uartVars, scanVars, codecVars, statVars, envVars, peerVars, dispVars>>

\* self.serial.write(data); self.serial.flush(); time.sleep(self.tx_timeout):
\* one byte goes out per step
HdSendWrite ==
    /\ hdSendPc = "write"
    /\ hdWire' = Append(hdWire, hdIdx + 1)
    /\ hdIdx' = IF hdIdx + 1 = DataLen THEN 0 ELSE hdIdx + 1
    /\ hdSendPc' = IF hdIdx + 1 = DataLen THEN "rx_out" ELSE "write"
    /\ UNCHANGED <<hd, hdLock, hdRxPc, hdLog, hdPeer, hdData,
                   parserVars, crcVars, udpVars, uartVars, scanVars, codecVars, statVars, envVars, peerVars, dispVars>>

\* the port fails under write or flush: except Exception runs _set_rx_mode
\* and returns False
HdSendFails ==
    /\ hdSendPc = "write"
    /\ hdIdx' = 0
    /\ hdSendPc' = "exc_out"
    /\ UNCHANGED <<hd, hdLock, hdRxPc, hdLog, hdPeer, hdData, hdWire,
                   parserVars, crcVars, udpVars, uartVars, scanVars, codecVars, statVars, envVars, peerVars, dispVars>>

\* _set_rx_mode: if self.is_tx_mode: GPIO.output(self.dir_pin, GPIO.LOW),
\* then self.is_tx_mode = False, one statement per step; after it send()
\* returns and the with block releases the lock
HdSetRxMode ==
    /\ hdSendPc \in {"rx_out", "rx_flag", "exc_out", "exc_flag"}
    /\ LET ok == hdSendPc \in {"rx_out", "rx_flag"}
       IN IF hdSendPc \in {"rx_out", "exc_out"} /\ hd.is_tx_mode
          THEN /\ hd' = [hd EXCEPT !.dir_pin = LOW]
               /\ hdSendPc' = IF ok THEN "rx_flag" ELSE "exc_flag"
               /\ UNCHANGED <<hdLock, hdLog>>
          ELSE /\ hd' = [hd EXCEPT !.is_tx_mode = FALSE]
               /\ hdSendPc' = "idle"
               /\ hdLock' = "none"
               /\ hdLog' = Append(hdLog, IF ok THEN "True" ELSE "False")
    /\ UNCHANGED <<hdRxPc, hdIdx, hdPeer, hdData, hdWire,
                   parserVars, crcVars, udpVars, uartVars, scanVars, codecVars, statVars, envVars, peerVars, dispVars>>

\* ---- the bus
\* the peer puts a byte on the bus while the level shifter passes it inward
HdPeerByte ==
    /\ hdPeer < MaxHdPeer
    /\ hd.dir_pin = LOW
    /\ hd' = [hd EXCEPT !.in_waiting = Append(@, hdPeer + 1)]
    /\ hdPeer' = hdPeer + 1
    /\ UNCHANGED <<hdLock, hdRxPc, hdSendPc, hdIdx, hdLog, hdData, hdWire,
                   parserVars, crcVars, udpVars, uartVars, scanVars, codecVars, statVars, envVars, peerVars, dispVars>>

HdRxStep == HdRxTop \/ HdRxCheck \/ HdRxRead \/ HdRxCallback

HdSendStep ==
    HdSendCall \/ HdSendCheck \/ HdSendLock \/ HdSetTxMode \/ HdSendReset
        \/ HdSendWrite \/ HdSendFails \/ HdSetRxMode

NextHalfDuplex == HdRxStep \/ HdSendStep \/ HdPeerByte

SpecHalfDuplex == InitHalfDuplex /\ [][NextHalfDuplex]_vars

(***************************************************************************)
(* SpecStats: UDPTransport._send_packet called concurrently by the serial  *)
(* reader, the UDP receive loop and the heartbeat timer of a running       *)
(* transport.  The two "+=" on self.stats are a read followed by a write,  *)
(* and nothing keeps another thread from running between them.             *)
(***************************************************************************)
\* the packet each thread sends
PacketOf(t) ==
    IF t = "serial" THEN Envelope(CRSF_DATA, now, <<7>>)
    ELSE IF t = "udp_rx" THEN Envelope(HEARTBEAT, now, PongBytes)
    ELSE Envelope(HEARTBEAT, now, PingBytes)

InitStats ==
    /\ IdleStats
    /\ IdleEnvelope
    /\ IdlePeers
    /\ IdleDispatch
    /\ IdleHd
    /\ IdleCodec
    /\ IdleParser
    /\ IdleCrc
    /\ IdleUdp
    /\ IdleUart

\* sent_bytes = self.socket.sendto(packet, ...), after the check of socket
\* and is_running
SpSendto(t) ==
    /\ spPc[t] = "idle"
    /\ spRet[t] < MaxTx
    /\ txLog' = Append(txLog, PacketOf(t))
    /\ spPc' = [spPc EXCEPT ![t] = "load_packets"]
    /\ UNCHANGED <<spTmp, spRet, now, stats, rxData, rxPc, rxCount, dataCalls, statusCalls,
                   hbPc, hbWake, sendCalls, parserVars, crcVars, uartVars, scanVars,
                   codecVars, hdVars, envVars, peerVars, dispVars>>

\* self.stats['tx_packets'] += 1 and self.stats['tx_bytes'] += sent_bytes:
\* the read of the counter
SpLoad(t) ==
    /\ spPc[t] \in {"load_packets", "load_bytes"}
    /\ spTmp' = [spTmp EXCEPT ![t] = IF spPc[t] = "load_packets" THEN stats.tx_packets
                                     ELSE stats.tx_bytes]
    /\ spPc' = [spPc EXCEPT ![t] = IF spPc[t] = "load_packets" THEN "store_packets"
                                   ELSE "store_bytes"]
    /\ UNCHANGED <<spRet, udpVars, parserVars, crcVars, uartVars, scanVars, codecVars, hdVars, envVars, peerVars, dispVars>>

\* the write of the incremented value; after the second one: return True
SpStore(t) ==
    /\ spPc[t] \in {"store_packets", "store_bytes"}
    /\ IF spPc[t] = "store_packets"
       THEN /\ stats' = [stats EXCEPT !.tx_packets = spTmp[t] + 1]
            /\ spPc' = [spPc EXCEPT ![t] = "load_bytes"]
            /\ spRet' = spRet
       ELSE /\ stats' = [stats EXCEPT !.tx_bytes = spTmp[t] + Len(PacketOf(t))]
            /\ spPc' = [spPc EXCEPT ![t] = "idle"]
            /\ spRet' = [spRet EXCEPT ![t] = @ + 1]
    /\ UNCHANGED <<spTmp, now, rxData, rxPc, rxCount, dataCalls, statusCalls, txLog,
                   hbPc, hbWake, sendCalls, parserVars, crcVars, uartVars, scanVars,
                   codecVars, hdVars, envVars, peerVars, dispVars>>

NextStats == \E t \in SendPacketThreads : SpSendto(t) \/ SpLoad(t) \/ SpStore(t)

SpecStats == InitStats /\ [][NextStats]_vars

(***************************************************************************)
(* SpecEnvelope: a peer transport builds one envelope with _send_packet,   *)
(* the network delivers the datagram intact, and the receive loop of this  *)
(* transport handles it.                                                   *)
(***************************************************************************)
RecvSize == 1024         \* self.socket.recvfrom(1024)

\* what recvfrom(bufsize) returns for a datagram: its first bufsize bytes
recvfrom(datagram, bufsize) == Slice(datagram, 0, bufsize)

\* payload lengths: short ones, and the two around the largest payload that
\* fits the receive buffer together with the header
EnvLengths == (0..MaxEnvLen) \cup {RecvSize - HeaderLen, RecvSize - HeaderLen + 1}

EnvPayloads == {[i \in 1..n |-> b] : n \in EnvLengths, b \in {7, 8}}

InitEnvelope ==
    /\ IdleEnvelope
    /\ IdlePeers
    /\ IdleDispatch
    /\ IdleStats
    /\ IdleHd
    /\ IdleCodec
    /\ IdleParser
    /\ IdleCrc
    /\ IdleUdp
    /\ IdleUart

\* the peer calls _send_packet(packet_type, data) on its running transport
EnvSend(packet_type, data) ==
    /\ envReq = None
    /\ envReq' = Some(<<packet_type, data>>)
    /\ envWire' = Some(Envelope(packet_type, now, data))
    /\ UNCHANGED <<udpVars, parserVars, crcVars, uartVars, scanVars, codecVars, hdVars, statVars, peerVars, dispVars>>

\* data, addr = self.socket.recvfrom(1024), and the two checks that follow
EnvRecv ==
    /\ envWire # None
    /\ rxPc = "recv"
    /\ rxCount = 0
    /\ rxData' = recvfrom(envWire[1], RecvSize)
    /\ rxCount' = rxCount + 1
    /\ rxPc' = IF Rejected(rxData') THEN "recv" ELSE "count"
    /\ UNCHANGED <<sendCalls, now, stats, dataCalls, statusCalls, txLog, hbPc, hbWake,
                   envVars, parserVars, crcVars, uartVars, scanVars, codecVars, hdVars, statVars, peerVars, dispVars>>

NextEnvelope ==
    \/ \E packet_type \in {CRSF_DATA, HEARTBEAT, STATUS}, data \in EnvPayloads :
           EnvSend(packet_type, data)
    \/ EnvRecv
    \/ RxCount
    \/ RxActivate
    \/ RxDispatch

SpecEnvelope == InitEnvelope /\ [][NextEnvelope]_vars

(***************************************************************************)
(* SpecPeers: two running UDPTransport objects, each the remote of the     *)
(* other.  Each has its heartbeat timer and its receive loop; datagrams    *)
(* arrive intact and in order.                                             *)
(***************************************************************************)
OtherPeer(p) == IF p = "a" THEN "b" ELSE "a"

InitPeers ==
    /\ IdlePeers
    /\ IdleDispatch
    /\ IdleEnvelope
    /\ IdleStats
    /\ IdleHd
    /\ IdleCodec
    /\ IdleParser
    /\ IdleCrc
    /\ IdleUdp
    /\ IdleUart

\* _heartbeat_loop of p: self._send_packet(UDPPacketType.HEARTBEAT, b'ping')
PeerTick(p) ==
    /\ pTicks[p] < MaxTicks
    /\ pTicks' = [pTicks EXCEPT ![p] = @ + 1]
    /\ pSent' = [pSent EXCEPT ![p] = @ + 1]
    /\ pNet' = [pNet EXCEPT ![OtherPeer(p)] = Append(@, Envelope(HEARTBEAT, now, PingBytes))]
    /\ UNCHANGED <<udpVars, parserVars, crcVars, uartVars, scanVars, codecVars, hdVars,
                   statVars, envVars, dispVars>>

\* _rx_loop of p takes the next datagram; for packet_type HEARTBEAT it
\* answers self._send_packet(UDPPacketType.HEARTBEAT, b'pong')
PeerReceive(p) ==
    /\ pNet[p] # <<>>
    /\ LET data == Head(pNet[p])
       IN IF ~Rejected(data) /\ UnpackType(data) = HEARTBEAT /\ pSent[p] < MaxEchoes
          THEN /\ pSent' = [pSent EXCEPT ![p] = @ + 1]
               /\ pNet' = [pNet EXCEPT ![p] = Tail(@),
                                       ![OtherPeer(p)] = Append(@, Envelope(HEARTBEAT, now, PongBytes))]
          ELSE /\ pSent' = pSent
               /\ pNet' = [pNet EXCEPT ![p] = Tail(@)]
    /\ UNCHANGED <<pTicks, udpVars, parserVars, crcVars, uartVars, scanVars, codecVars, hdVars,
                   statVars, envVars, dispVars>>

NextPeers == \E p \in Peers : PeerTick(p) \/ PeerReceive(p)

SpecPeers == InitPeers /\ [][NextPeers]_vars

(***************************************************************************)
(* SpecDispatch: _process_uart_frame and _process_udp_frame applied to     *)
(* CRSFFrame objects, with callbacks registered through                    *)
(* set_frame_callback at any moment.                                       *)
(***************************************************************************)
RC_CHANNELS_PACKED == 22

\* the members main() and other callers pass to set_frame_callback
CallbackKeys == {PyMember(LINK_STATISTICS), PyMember(RC_CHANNELS_PACKED)}

\* frames as CRSFFrame.__init__ leaves them: frame_type is the number, also
\* when the constructor was given a member; 0x7F is no member
DispatchFrames ==
    {LinkStatsFrame, CRSFFrame(RC_CHANNELS_PACKED, <<>>, SYNC_BYTE), CRSFFrame(127, <<>>, SYNC_BYTE)}

InitDispatch ==
    /\ IdleDispatch
    /\ IdlePeers
    /\ IdleEnvelope
    /\ IdleStats
    /\ IdleHd
    /\ IdleCodec
    /\ IdleParser
    /\ IdleCrc
    /\ IdleUdp
    /\ IdleUart

\* `if frame_type in self.frame_callbacks: self.frame_callbacks[frame_type](frame)`:
\* the dict is searched for a key equal to the int frame_type; the callbacks
\* called, each named by its key
InvokeCallbacks(callbacks, frame_type) ==
    IF \E k \in callbacks : k = PyInt(frame_type)
    THEN <<CHOOSE k \in callbacks : k = PyInt(frame_type)>>
    ELSE <<>>

\* bridge.set_frame_callback(frame_type, callback)
SetFrameCallback(frame_type) ==
    /\ frame_type \notin frame_callbacks
    /\ frame_callbacks' = frame_callbacks \cup {frame_type}
    /\ UNCHANGED <<frameStats, dispLog, parserVars, crcVars, udpVars, uartVars, scanVars, codecVars,
                   hdVars, statVars, envVars, peerVars>>

\* self._process_uart_frame(frame)
ProcessUartFrame(frame) ==
    /\ Len(dispLog) < MaxDispatch
    /\ frameStats' = [frameStats EXCEPT !.uart_frames_rx = @ + 1]
    /\ telemetry' = ExtractTelemetry(telemetry, frame)
    /\ dispLog' = Append(dispLog, [side |-> "uart", frame_type |-> frame.frame_type,
                                   callbacks |-> frame_callbacks,
                                   invoked |-> InvokeCallbacks(frame_callbacks, frame.frame_type)])
    /\ UNCHANGED <<frame_callbacks, mode, stream, pos, buffer, frames, raised, calls, udpSent,
                   crcVars, udpVars, uartVars, scanVars, codecVars, hdVars, statVars, envVars, peerVars>>

\* self._process_udp_frame(frame)
ProcessUdpFrame(frame) ==
    /\ Len(dispLog) < MaxDispatch
    /\ frameStats' = [frameStats EXCEPT !.udp_frames_rx = @ + 1]
    /\ dispLog' = Append(dispLog, [side |-> "udp", frame_type |-> frame.frame_type,
                                   callbacks |-> frame_callbacks,
                                   invoked |-> InvokeCallbacks(frame_callbacks, frame.frame_type)])
    /\ UNCHANGED <<frame_callbacks, parserVars, crcVars, udpVars, uartVars, scanVars, codecVars,
                   hdVars, statVars, envVars, peerVars>>

NextDispatch ==
    \/ \E frame_type \in CallbackKeys : SetFrameCallback(frame_type)
    \/ \E frame \in DispatchFrames : ProcessUartFrame(frame)
    \/ \E frame \in DispatchFrames : ProcessUdpFrame(frame)

SpecDispatch == InitDispatch /\ [][NextDispatch]_vars

(***************************************************************************)
(* Properties.                                                             *)
(***************************************************************************)
\* the frame a parser should hand back for the wire bytes of f
Decoded(f) == CRSFFrame(f.frame_type, f.payload, f.sync_byte)

RECURSIVE Returned(_)
\* the frames of all calls so far, in order
Returned(cs) == IF cs = <<>> THEN <<>> ELSE Head(cs).frames \o Returned(Tail(cs))

NoCallRaised == \A i \in 1..Len(calls) : ~calls[i].raised

\* C1 (partial delivery): when the stream is one valid frame fed to a fresh
\* parser in any chunks, every call before the one that supplies the last
\* byte returns nothing, that call returns the frame, and no call raises.
C1_PartialDelivery ==
    (mode = "parser" /\ calls # <<>>) =>
        \A f \in SampleFrames :
            (stream = build(f)) =>
            \A i \in 1..Len(calls) :
                /\ ~calls[i].raised
                /\ calls[i].frames =
                       IF i = Len(calls) /\ pos = Len(stream) THEN <<Decoded(f)>> ELSE <<>>

\* C2 (resync): when the stream is noise followed by one valid frame, then
\* once all of it has been fed to a fresh parser the calls have returned
\* exactly that one frame, none raised, and nothing is left in the buffer.
C2_Resync ==
    (mode = "parser" /\ pos = Len(stream)) =>
        \A n \in Noises, f \in SampleFrames :
            (stream = n \o build(f)) =>
            /\ NoCallRaised
            /\ Returned(calls) = <<Decoded(f)>>
            /\ buffer = <<>>

\* C3 (never raises): no add_data call raises to its caller, whatever the
\* chunks hold.
C3_NeverRaises == ~raised

\* C4 (round trip): parsing the bytes of build() with a fresh parser in one
\* call returns exactly one frame with the original's sync byte, type,
\* destination, origin and payload.
C4_RoundTrip ==
    (mode = "parser" /\ pos = Len(stream) /\ Len(calls) = 1) =>
        \A f \in SampleFrames :
            (stream = build(f)) =>
            /\ ~raised
            /\ frames = <<f>>

BitsOf(data) == [i \in 1..(8 * Len(data)) |-> (data[((i - 1) \div 8) + 1] \div Pow2(7 - ((i - 1) % 8))) % 2]

RECURSIVE PolyReg(_, _)
\* long division over GF(2) by x^8 + x^7 + x^6 + x^4 + x^2 + 1 (0x1D5), bit by bit
PolyReg(reg, bits) ==
    IF bits = <<>> THEN reg
    ELSE LET shifted == ((reg * 2) + Head(bits)) % 256
         IN PolyReg(IF reg >= 128 THEN BitXor(shifted, 213, 8) ELSE shifted, Tail(bits))

\* CRC-8, polynomial 0xD5, MSB-first, unreflected, initial value 0: the
\* remainder of the message times x^8
PolyRemainder(data) == PolyReg(0, BitsOf(data) \o <<0, 0, 0, 0, 0, 0, 0, 0>>)

\* C6 (CRC-8): calc_crc(data) is the CRC-8 of data with polynomial 0xD5,
\* MSB-first, unreflected, initial value 0; it equals the table-driven crc8
\* on the same input, and each table entry is the bitwise result for its byte.
C6_CrcMatchesTable ==
    /\ crcOut # None => crcOut = Some(PolyRemainder(crcData))
    /\ (crcOut # None /\ tabOut # None) => crcOut = tabOut
    /\ (crcOut # None /\ Len(crcData) = 1) => crcOut = Some(crc8_table[crcData[1] + 1])

C6_Witness ==
    /\ Len(crcData) = 2 /\ crcOut # None /\ tabOut # None /\ crcOut = tabOut
    /\ crcOut # Some(0)

\* C7 (CRC sensitivity): flipping any one bit of the CRC-covered bytes
\* changes calc_crc, and a parser fed the altered frame with the original
\* CRC byte returns no frame.
C7_CrcSensitive ==
    (crcOut # None /\ flipOut # None) =>
        /\ flipOut # crcOut
        /\ flipFrames[1].frames = <<>>

C7_Witness ==
    /\ crcOut # None /\ flipOut # None /\ Len(crcData) >= 2
    /\ flipBit[1] < 8 * (Len(crcData) - 1)
    /\ flipBit[1] >= 8

\* a datagram the receive path must reject: shorter than the header, or
\* with a declared length that is not the number of bytes after the header
Malformed(d) == Len(d) < HeaderLen \/ UnpackLength(d) # Len(d) - HeaderLen

\* a step of the receive loop
RxStep == rxPc' # rxPc \/ rxCount' # rxCount

\* C8 (rejection): a datagram shorter than 11 bytes, or whose declared
\* length differs from the bytes after the header (fewer or more), causes no
\* callback, no echo and no counter update.
C8_RejectsMalformed ==
    [][(RxStep /\ Malformed(rxData')) =>
           UNCHANGED <<stats, dataCalls, statusCalls, txLog>>]_vars

\* C9 (envelope integrity): handling a too-short or length-mismatched
\* datagram leaves rx_packets, rx_bytes, last_rx_time and connection_active
\* as they were, so the next envelope is handled as if it had not arrived.
C9_RejectedLeavesState ==
    [][(RxStep /\ Malformed(rxData')) =>
           /\ stats'.rx_packets = stats.rx_packets
           /\ stats'.rx_bytes = stats.rx_bytes
           /\ stats'.last_rx_time = stats.last_rx_time
           /\ stats'.connection_active = stats.connection_active]_vars

\* C10 (liveness derivation): in every state get_stats() can observe,
\* connection_active is false when 15 s or more have passed since the last
\* accepted envelope.
C10_InactiveAfterTimeout ==
    (now - stats.last_rx_time >= TimeoutS) => ~stats.connection_active

\* C11 (link monitor): once the receive loop has accepted an envelope,
\* connection_active is true and stays true while fewer than 15 s have
\* passed since the last accepted envelope, however the receive loop's
\* statements interleave with the heartbeat loop's check and clear.
C11_ActiveWhileFresh ==
    (stats.rx_packets > 0 /\ rxPc # "activate" /\ now - stats.last_rx_time < TimeoutS)
        => stats.connection_active

\* a thread is inside the part of its code that touches the port and the
\* enable lines
InSection(t) ==
    IF t = "reader"
    THEN readPc \in {"rx1", "rx2", "read"}
    ELSE sendPc[t] \in {"tx1", "tx2", "write", "fin1", "fin2", "err1", "err2"}

\* C12 (exclusive bus access): in DualGPIO_UART at most one thread is inside
\* the port read/write section at a time, so the receive loop never reads
\* the port between a send's acquisition and release of the lock, and no
\* byte written by a send is read by the receive loop or delivered to the
\* receive callback.
C12_ExclusiveBus ==
    /\ Cardinality({t \in Senders \cup {"reader"} : InSection(t)}) <= 1
    /\ \A t \in Senders \cup {"reader"} : InSection(t) => lock = t
    /\ \A i \in 1..Len(readData) : readData[i][1] = "peer"
    /\ \A i \in 1..Len(delivered) : delivered[i][1] = "peer"

\* the reader waits for the lock with a byte pending while a send is writing
C12_Witness ==
    /\ readPc = "lock"
    /\ uart.in_waiting # <<>>
    /\ \E s \in Senders : sendPc[s] = "write" /\ sendIdx[s] > 0 /\ lock = s

\* a thread stands between the two set_value calls of a direction switch
MidSwitch ==
    \/ readPc = "rx2"
    \/ \E s \in Senders : sendPc[s] \in {"tx2", "fin2", "err2"}

\* the enable lines, read as a direction
Direction(u) ==
    IF u.tx_line = 1 /\ u.rx_line = 0 THEN "TRANSMIT"
    ELSE IF u.tx_line = 0 /\ u.rx_line = 1 THEN "RECEIVE"
    ELSE IF u.tx_line = 0 THEN "neither" ELSE "both"

C14_LinkStatsExtracted ==
    (mode = "bridge" /\ pos = Len(stream) /\ Len(stream) = Len(LinkStatsPayload) + 4
        /\ stream = build(LinkStatsFrame)) =>
        telemetry.link_stats =
            Some([uplink_rssi_1 |-> Some(0 - 80), uplink_rssi_2 |-> None,
                  uplink_quality |-> 95, uplink_snr |-> 0 - 6, antenna |-> 1,
                  rf_mode |-> 2, tx_power |-> 20, downlink_rssi |-> None,
                  downlink_quality |-> 90, downlink_snr |-> 6])

\* no byte of buf is one of the four sync bytes
NoSync(buf) ==
    \A i \in 1..Len(buf) : \A j \in 1..Len(VALID_SYNC_BYTES) : buf[i] # VALID_SYNC_BYTES[j]

\* C15 (raw fallback): the bridge forwards an inbound chunk unmodified only
\* when the parser finds no recognised sync byte in its buffer; a chunk that
\* yields no frame because a frame is still filling stays buffered and is
\* not forwarded raw.
C15_RawOnlyWithoutSync ==
    [][(mode = "bridge" /\ pos' > pos /\ frames' = <<>> /\ udpSent' # udpSent) =>
           NoSync(buffer \o SubSeq(stream, pos + 1, pos'))]_vars

\* C16 (invalid frames never surfaced): the bytes of a complete frame whose
\* CRC does not match are discarded; they reach the other side neither as a
\* decoded frame nor inside a forwarded chunk.
C16_BadCrcNeverForwarded ==
    (mode = "bridge" /\ udpSent # <<>>) =>
        \A f \in SampleFrames : stream # BadCrc(build(f))

\* the payloads of the CRSF_DATA envelopes in a transmit log, in order
RECURSIVE DataSent(_)
DataSent(log) ==
    IF log = <<>> THEN <<>>
    ELSE (IF UnpackType(Head(log)) = CRSF_DATA THEN <<UnpackPayload(Head(log))>> ELSE <<>>)
         \o DataSent(Tail(log))

\* C17 (heartbeats never gate relay): whether a data frame is sent by
\* send_crsf_data, or delivered to the data callback, does not depend on
\* connection_active, last_rx_time or any heartbeat having been received:
\* every call of send_crsf_data on a running transport returns True and
\* puts its payload on the socket, and every accepted CRSF_DATA envelope
\* reaches the data callback.
C17_RelayIgnoresLink ==
    [][/\ \A i \in 1..Len(sendCalls') : sendCalls'[i][2]
       /\ DataSent(txLog') = [i \in 1..Len(sendCalls') |-> sendCalls'[i][1]]
       /\ (rxPc = "dispatch" /\ rxPc' # rxPc /\ UnpackType(rxData) = CRSF_DATA) =>
              dataCalls' = Append(dataCalls, UnpackPayload(rxData))]_vars

\* data was sent while the link was reported down, and a data envelope was
\* delivered to the callback
C17_Witness ==
    /\ \E i \in 1..Len(sendCalls) : sendCalls[i][2] /\ ~sendCalls[i][3]
    /\ dataCalls # <<>>

\* C18 (shutdown never interrupts an in-flight bus transaction): while a
\* send() holds the exclusive section, under any interleaving with
\* SmartBridge.stop() / DualGPIO_UART.stop(), the serial port is not closed
\* and the direction lines are not released.
C18_StopWaitsForSend ==
    \A s \in Senders : (lock = s /\ InSection(s)) => (uart.is_open /\ uart.held)

\* C19 (fatal I/O error ends the session): after the serial receive loop has
\* hit a fatal SerialException and stopped, the orchestrator is eventually
\* shut down: the UDP transport is stopped and its socket closed.
C19_FatalEndsSession ==
    fatal ~> (~udpUp.is_running /\ ~udpUp.socket)

\* C20 (no wedge): after any burst of corrupt or noise bytes the parser's
\* buffer is never in a state from which every following stream of valid
\* frames yields no frame: here, some two valid frames fed next make
\* add_data return a frame.
C20_NoWedge ==
    (mode = "parser" /\ pos = Len(stream) /\ calls # <<>>) =>
        \E f, g \in SampleFrames :
            LET r1 == add_data(buffer, build(f))
                r2 == add_data(r1.buffer, build(g))
            IN r1.frames # <<>> \/ r2.frames # <<>>

RECURSIVE EarliestSync(_, _)
\* the 0-based index of the first byte at or after i that is one of the four
\* sync bytes, or -1
EarliestSync(buf, i) ==
    IF i >= Len(buf) THEN -1
    ELSE IF \E j \in 1..Len(VALID_SYNC_BYTES) : buf[i + 1] = VALID_SYNC_BYTES[j] THEN i
    ELSE EarliestSync(buf, i + 1)

\* C21 (sync scan): a scan step of add_data resumes at the earliest buffer
\* position holding any of the four sync bytes and discards only the bytes
\* before it, so a frame starting with 0xEA, 0xEC or 0xEE is not skipped
\* because 0xC8 occurs later in the buffer.
C21_ScanFindsEarliest ==
    [][(mode = "parser" /\ pos' > pos) =>
           LET b == buffer \o SubSeq(stream, pos + 1, pos')
           IN Len(b) > 2 => SyncScan(b, 1) = EarliestSync(b, 0)]_vars

\* C22 (no sync, buffer dropped): when the buffer holds no recognised sync
\* byte, add_data drops the whole buffer, so the buffer is empty on return
\* and does not grow over calls that deliver only noise.
C22_NoSyncDropsBuffer ==
    (calls # <<>> /\ ~raised /\ NoSync(buffer)) => buffer = <<>>

\* C23 (termination): add_data terminates for every buffer content and
\* chunk: each pass of its scan loop either ends the loop or strictly
\* shortens the buffer, so there are never more passes than bytes, and the
\* passes together leave what add_data leaves.
C23_ScanTerminates ==
    [][(mode = "scan" /\ scanPc = "loop") =>
           /\ scanPc' = "done" \/ Len(buffer') < Len(buffer)
           /\ scanIter' <= Len(stream) + 1
           /\ scanPc' = "done" =>
                  LET r == ScanLoop(stream, <<>>)
                  IN buffer' = r.buffer /\ frames' = r.frames /\ raised' = r.raised]_vars

\* the loop has ended after a pass that dropped a sync byte with an invalid
\* length and went round again
C23_Witness ==
    mode = "scan" /\ scanPc = "done" /\ scanIter >= 2 /\ Len(buffer) < Len(stream)

\* the bytes the wire format prescribes for an extended frame with the given
\* addresses: sync, length, type, destination, origin, payload, CRC over
\* type, addresses and payload
ExtendedWire(sync_byte, frame_type, destination, origin, payload) ==
    <<sync_byte, Len(payload) + 4, frame_type, destination, origin>> \o payload
        \o <<calc_crc(<<frame_type, destination, origin>> \o payload)>>

\* C24 (extended encoding): build() of a frame whose type is 0x28 or above
\* emits the destination and origin bytes between type and payload, sets
\* the length field to len(payload)+4 and covers both address bytes with the
\* CRC; for other frames the length field is len(payload)+2; the wire length
\* is always length+2.
C24_ExtendedEncoding ==
    (codecReq = <<"frame">> /\ codecOut # None) =>
        LET f == codecIn[1]
            w == codecOut[1]
        IN /\ Len(w) = w[2] + 2
           /\ IF IsExtended(f.frame_type)
              THEN w = ExtendedWire(f.sync_byte, f.frame_type, f.destination[1], f.origin[1], f.payload)
              ELSE w[2] = Len(f.payload) + 2

\* C25 (ping frame): the keep-alive built by create_heartbeat_frame() or
\* create_ping_frame(destination, origin) is a PING frame: its type byte is
\* 0x28 and its encoded bytes carry the given destination and origin before
\* the payload.
C25_KeepAliveIsPing ==
    (codecReq # None /\ codecReq[1] \in {"ping", "heartbeat"} /\ codecOut # None) =>
        LET destination == IF codecReq[1] = "ping" THEN codecReq[2] ELSE BROADCAST
            origin == IF codecReq[1] = "ping" THEN codecReq[3] ELSE CRSF_ADDRESS_FLIGHT_CONTROLLER
        IN codecOut[1] = ExtendedWire(SYNC_BYTE, PING, destination, origin, <<>>)


\* the bytes a sender has put on the bus, in order
WrittenBy(s) == SelectSeq(wire, LAMBDA e : e[1] = s)

\* the order in which send() passes its steps: lock, RX-enable off, TX-enable
\* on, the bytes, TX-enable off, RX-enable on, unlock
SendOrder ==
    {<<"check", "lock">>, <<"lock", "tx1">>, <<"tx1", "tx2">>, <<"tx2", "write">>,
     <<"write", "write">>, <<"write", "fin1">>, <<"fin1", "fin2">>, <<"fin2", "idle">>}

\* C26 (send sequence): every successful DualGPIO_UART.send acquires the
\* lock, deasserts RX-enable, asserts TX-enable, writes all bytes, deasserts
\* TX-enable, asserts RX-enable and releases the lock, in this order; the
\* direction does not return to RECEIVE before the last byte is written.
C26_SendSequence ==
    [][\A s \in Senders :
        /\ sendLog'[s] = Append(sendLog[s], "True") =>
              /\ sendPc[s] = "fin2" /\ sendPc'[s] = "idle"
              /\ lock = s /\ lock' = "none"
              /\ uart.tx_line = 0 /\ uart.rx_line = 0
              /\ Direction(uart') = "RECEIVE"
              /\ Len(WrittenBy(s)) >= DataLen
              /\ \A i \in 1..DataLen :
                    WrittenBy(s)[Len(WrittenBy(s)) - DataLen + i] = <<s, i>>
        /\ (sendPc'[s] \in {"fin1", "fin2"} /\ sendPc'[s] # sendPc[s]) =>
              <<sendPc[s], sendPc'[s]>> \in SendOrder
        /\ (sendPc'[s] \in {"tx1", "tx2", "write", "fin1", "fin2"}) => lock' = s
        /\ (sendPc'[s] = "tx1" /\ uart'.held) => Direction(uart') = "RECEIVE"
        /\ (sendPc'[s] = "tx2" /\ uart'.held) => Direction(uart') = "neither"
        /\ (sendPc'[s] \in {"write", "fin1"} /\ uart'.held) => Direction(uart') = "TRANSMIT"
        /\ (sendPc'[s] = "fin2" /\ uart'.held) => Direction(uart') = "neither"
        /\ (sendPc'[s] = "fin1" /\ sendPc[s] = "write") => WrittenBy(s)'[Len(WrittenBy(s)')] = <<s, DataLen>>
        /\ (WrittenBy(s)' # WrittenBy(s)) =>
              /\ sendPc[s] = "write" /\ lock = s
              /\ uart.held => Direction(uart) = "TRANSMIT"]_vars

\* a send has returned True with the line back in RECEIVE and the lock free
C26_Witness ==
    /\ \E s \in Senders : sendLog[s] # <<>> /\ sendLog[s][Len(sendLog[s])] = "True"
                           /\ Len(WrittenBy(s)) = DataLen
    /\ uart.held
    /\ Direction(uart) = "RECEIVE"
    /\ lock = "none"


\* C27 (direction restored): whatever the outcome of a send that took the
\* lock (True, False after a failed write, or an exception), when send()
\* returns or raises the lines read RECEIVE and the lock is released.
C27_SendRestoresReceive ==
    [][\A s \in Senders :
        (InSection(s) /\ ~InSection(s)') =>
            /\ Direction(uart') = "RECEIVE"
            /\ lock' = "none"]_vars


\* C28 (no double drive): in DualGPIO_UART the TX-enable and RX-enable lines
\* are never asserted at the same time, and every step that asserts one of
\* them finds the other line already deasserted.
C28_NeverBothAsserted ==
    [][/\ ~(uart.tx_line = 1 /\ uart.rx_line = 1)
       /\ ~(uart'.tx_line = 1 /\ uart'.rx_line = 1)
       /\ (uart'.tx_line = 1 /\ uart.tx_line = 0) => uart.rx_line = 0
       /\ (uart'.rx_line = 1 /\ uart.rx_line = 0) => uart.tx_line = 0]_vars

\* a send has asserted TX-enable after deasserting RX-enable, and the
\* receive loop waits to switch back
C28_Witness ==
    /\ uart.held
    /\ uart.tx_line = 1 /\ uart.rx_line = 0
    /\ \E s \in Senders : sendPc[s] = "fin1" /\ sendLog[s] = <<>>
    /\ peerCount > 0


\* C29 (half-duplex exclusion): in HalfDuplexUART the receive loop never
\* reads the serial port while a send holds thread_lock or while the line
\* is in TRANSMIT.
C29_ReadExcludesSend ==
    [][(hdRxPc = "read" /\ hdRxPc' = "callback") =>
           /\ hdLock = "none"
           /\ hd.dir_pin = LOW
           /\ ~hd.is_tx_mode]_vars


ReturnedTrue == spRet["serial"] + spRet["udp_rx"] + spRet["timer"]

\* C31 (exact counters): with the serial reader, the UDP receive loop and
\* the heartbeat timer calling _send_packet concurrently, tx_packets and
\* tx_bytes never decrease, and once no call is in progress tx_packets
\* equals the number of calls that returned True.
C31_CountersExact ==
    [][/\ stats'.tx_packets >= stats.tx_packets
       /\ stats'.tx_bytes >= stats.tx_bytes
       /\ (\A t \in SendPacketThreads : spPc'[t] = "idle") =>
              stats'.tx_packets = ReturnedTrue']_vars


\* C32 (envelope round trip): the envelope built by _send_packet has a
\* length field equal to its payload length, and for every packet type and
\* payload a datagram delivered intact is accepted by the receive loop; the
\* payload of a data envelope reaches the data callback unchanged.  (A
\* STATUS payload is decoded before its callback runs and a HEARTBEAT has
\* no callback, so for these only acceptance is required.)
C32_EnvelopeRoundTrip ==
    envWire # None =>
        /\ UnpackLength(envWire[1]) = Len(envReq[1][2])
        /\ (rxCount = 1 /\ rxPc = "recv") =>
               /\ stats.rx_packets = 1
               /\ envReq[1][1] = CRSF_DATA => dataCalls = <<envReq[1][2]>>


\* C33 (shutdown joins every activity): once SmartBridge.stop() has
\* returned, the serial reader and the threads that send on the serial
\* line (the UDP receive thread, the keep-alive timer) have terminated and
\* nothing more is written to the line.
C33_StopJoinsAll ==
    [][mainPc = "done" =>
          /\ readPc = "done"
          /\ \A s \in Senders : sendPc[s] \in {"done", "dead"}
          /\ wire' = wire]_vars


\* C34 (serialized sends): on the serial line the bytes of one send() call
\* are contiguous and in order, and the bytes of another call follow only
\* after the call before them is complete: calls by the UDP receive thread
\* and the keep-alive timer never interleave.
C34_SendsSerialized ==
    /\ \A i \in 1..Len(wire) :
           IF wire[i][2] > 1
           THEN i > 1 /\ wire[i - 1] = <<wire[i][1], wire[i][2] - 1>>
           ELSE i > 1 => wire[i - 1][2] = DataLen
    /\ \A s \in Senders :
           (sendPc[s] \in {"idle", "done"} /\ \A k \in 1..Len(sendLog[s]) : sendLog[s][k] = "True") =>
               Len(WrittenBy(s)) = DataLen * Len(sendLog[s])

\* both threads have sent, one call after the other, while the second one
\* had to wait for the first
C34_Witness ==
    /\ Len(wire) = 2 * DataLen
    /\ wire[1][1] # wire[Len(wire)][1]
    /\ \A s \in Senders : sendLog[s] = <<"True">>


\* C35 (no indefinite blocking): under fair scheduling of the threads the
\* transceiver lock is free again and again, every sending thread is again
\* and again outside send() (each call returns or raises), and the receive
\* loop never waits for the lock for ever; whoever
\* holds the lock is inside its critical section and able to go on, so no
\* state is a deadlock.
C35_NoIndefiniteBlocking ==
    /\ [](\A t \in Senders \cup {"reader"} : lock = t => InSection(t))
    /\ []<>(lock = "none")
    /\ \A s \in Senders : []<>(sendPc[s] \in {"idle", "done", "dead"})
    /\ []<>(readPc # "lock")

\* the receive loop and one sender wait for the lock that the other sender holds
C35_Witness ==
    /\ readPc = "lock"
    /\ \E s, t \in Senders : s # t /\ sendPc[s] = "lock" /\ lock = t /\ sendPc[t] = "write"


\* C36 (bounded heartbeat traffic): between two connected peers the number
\* of HEARTBEAT envelopes sent never exceeds twice the number of heartbeats
\* the timers have originated: a reply does not trigger a further reply.
C36_HeartbeatTrafficBounded ==
    pSent["a"] + pSent["b"] <= 2 * (pTicks["a"] + pTicks["b"])


RECURSIVE ReturnedFrames(_)
\* the frame lists the calls so far returned, concatenated
ReturnedFrames(cs) == IF cs = <<>> THEN <<>> ELSE Head(cs).frames \o ReturnedFrames(Tail(cs))

\* C37 (chunking invariance): once the whole stream has been fed to the
\* parser in chunks, every call has returned, the call that feeds the whole
\* stream to a fresh parser returns too, and the frame lists of the chunked
\* calls, concatenated, equal the list of that one call.
C37_ChunkingInvariance ==
    (mode = "parser" /\ pos = Len(stream) /\ calls # <<>>) =>
        LET whole == add_data(<<>>, stream)
        IN /\ ~whole.raised
           /\ \A i \in 1..Len(calls) : ~calls[i].raised
           /\ ReturnedFrames(calls) = whole.frames


RECURSIVE Flatten(_)
\* the bytes of a list of byte strings, in order
Flatten(chunks) == IF chunks = <<>> THEN <<>> ELSE Head(chunks) \o Flatten(Tail(chunks))

RECURSIVE IsSubsequence(_, _)
\* every element of a is matched, in order, by an element of b of its own
IsSubsequence(a, b) ==
    IF a = <<>> THEN TRUE
    ELSE IF b = <<>> THEN FALSE
    ELSE IF Head(a) = Head(b) THEN IsSubsequence(Tail(a), Tail(b))
    ELSE IsSubsequence(a, Tail(b))

C39_CallbackPerFrame ==
    \A i \in 1..Len(dispLog) :
        LET e == dispLog[i]
        IN /\ PyMember(e.frame_type) \in e.callbacks => e.invoked = <<PyMember(e.frame_type)>>
           /\ \A j \in 1..Len(e.invoked) : e.invoked[j] = PyMember(e.frame_type)


\* C40 (stop releases what start acquired): once DualGPIO_UART.stop() has
\* returned, the serial port is closed and the direction lines are released,
\* also when the receive loop had already ended on a fatal serial error.
C40_StopReleases ==
    mainPc = "done" => (~uart.is_open /\ ~uart.held)

====
